---- MODULE Spec2Model ----
(***************************************************************************)
(* A model of the thought lifecycle engine of thought-kit:                 *)
(*   - ThoughtStore (thoughtfulLM/backend/app/stores/thought_store.py)     *)
(*   - MemoryStore (thoughtfulLM/backend/app/stores/memory_store.py)       *)
(*   - the built-in operations of thought_kit/modules/operations           *)
(*   - ThoughtOperator and ThoughtKitAPI.operate                           *)
(*   - ThoughtGenerator.generate (thought_kit/modules/generator.py) and    *)
(*     the generate route (thoughtfulLM/backend/app/routes/thoughts.py)    *)
(* Scores are floats in the source.  They are modelled as integers in      *)
(* thousandths (0.8 is 800), so that round(x, 2) is a real rounding to a   *)
(* multiple of 10 and not the identity.                                    *)
(***************************************************************************)
EXTENDS Integers, Sequences, FiniteSets, TLC

VARIABLES
    thoughts,           \* ThoughtStore.thoughts: an insertion-ordered dict,
                        \* a sequence of [key, thought] with distinct keys
    max_thought_count,  \* ThoughtStore.max_thought_count
    pc,                 \* "idle", or "hung" once a call never returns
    last,               \* the name of the last store call that was made
    thought_list,       \* the List[Thought] an operation is handed and returns
    history,            \* the operations applied to thought_list so far, each
                        \* with its options and the list as it was before
    memory,             \* MemoryStore.memory: long_term and short_term, two
                        \* lists of memory items
    max_short_term_count,   \* MemoryStore.max_short_term_count
    max_long_term_count,    \* MemoryStore.max_long_term_count
    operations,         \* ThoughtOperator._operations: the function registered
                        \* under each registered name
    outcome,            \* what the last call of the operator or of
                        \* ThoughtKitAPI.operate did: returned or raised
    generated,          \* what the last generate call was handed and did:
                        \* the Thought it returned or the error it raised
    similarity,         \* the last cosine_similarity call: its two embeddings
                        \* and the value it returned or the error it raised
    gateway,            \* the gateway call under way (get_completion or
                        \* get_embedding_*): its position in the retry loop,
                        \* the upstream responses and the backoff waits so far
    articulated,        \* the last articulate call: the list it was handed,
                        \* the numbered lines of its prompt, its completions
    api_generated,      \* the last ThoughtKitAPI.generate call: what its input
                        \* held, the gateway calls it issued, how it ended
    requests,           \* the generate requests in flight on the route: the
                        \* position of each and the thought it was returned
    context             \* the last _generate_content call: the previous
                        \* thoughts it was handed and the context sections
                        \* of the prompt it built

storeVars == <<thoughts, max_thought_count, pc, last>>
opVars == <<thought_list, history>>
memVars == <<memory, max_short_term_count, max_long_term_count>>
registryVars == <<operations, outcome>>
vars == <<thoughts, max_thought_count, pc, last, thought_list, history,
          memory, max_short_term_count, max_long_term_count,
          operations, outcome, generated,
          similarity, gateway, articulated, api_generated, requests, context>>
utilVars == <<similarity, gateway, articulated, api_generated, context>>

\* what a ThoughtStore call, a built-in operation and a MemoryStore call
\* leave alone
nonStoreVars == <<opVars, memVars, registryVars, generated, utilVars, requests>>
nonOpVars == <<storeVars, memVars, registryVars, generated, utilVars, requests>>
nonMemVars == <<thoughts, max_thought_count, opVars, registryVars, generated,
               utilVars, requests>>
nonRegistryVars == <<storeVars, memVars, generated, utilVars, requests>>

(***************************************************************************)
(* Bounds of the model                                                     *)
(***************************************************************************)
\* the largest capacity handed to set_max_thought_count
MaxCount == 2

\* thought ids (dictionary keys and Thought.id values)
Ids == {"a", "b", "c"}

\* score.saliency values of stored thoughts, in thousandths
StoreSaliencies == {200, 700}

\* the capacities set_max_thought_count is called with (count: int, any sign)
Counts == (0 - 1) .. MaxCount

\* ThoughtStore.__init__: self.max_thought_count = 5
InitialMaxThoughtCount == 5

\* MemoryStore.__init__: self.max_short_term_count = 10
InitialMaxShortTermCount == 10

\* MemoryStore.__init__: self.max_long_term_count = 20
InitialMaxLongTermCount == 20

\* MemoryStore.__init__: Memory(long_term=[], short_term=[])
EmptyMemory == [long_term |-> <<>>, short_term |-> <<>>]

\* ThoughtOperator.__init__: self._operations = {}
EmptyRegistry == [n \in {} |-> ""]

\* Content.embedding: None, or a vector
NoEmbedding == [kind |-> "None", vec |-> <<>>]

\* no Thought: the call raised
NoThought ==
    [id |-> "", text |-> "", embedding |-> NoEmbedding, weight |-> 0,
     saliency |-> 0, persistent |-> FALSE]

\* _generate_content was not reached
NoContent == [error |-> "not reached", text |-> "", saliency |-> 0]

\* no completion reply
NoReply ==
    [raw |-> "", kind |-> "invalid", has_thought |-> FALSE, thought |-> "",
     saliency_is |-> "absent", saliency |-> 0]

\* no generate call has been made
NotGenerated ==
    [call |-> "none", event_text |-> "", reply |-> NoReply,
     config |-> [has_weight |-> FALSE, weight |-> 0, persistent |-> FALSE],
     content |-> NoContent, error |-> "none", thought |-> NoThought]

\* no call of the operator has been made
NoOutcome ==
    [call |-> "none", name |-> "", error |-> "none", message |-> "",
     returned |-> <<>>]

\* no cosine_similarity call has been made
NoSimilarity ==
    [call |-> "none", embedding1 |-> NoEmbedding, embedding2 |-> NoEmbedding,
     error |-> "none", value |-> 0]

\* no gateway call is under way
NoGateway ==
    [fn |-> "none", max_retries |-> 0, attempt |-> 0, pc |-> "idle",
     responses |-> <<>>, waits |-> <<>>, error |-> "none", message |-> ""]

\* no articulate call has been made
NotArticulated ==
    [call |-> "none", given |-> <<>>, thoughts |-> <<>>, lines |-> <<>>,
     completions |-> 0, error |-> "none", text |-> ""]

\* no ThoughtKitAPI.generate call has been made
NoApiGenerated ==
    [call |-> "none", input |-> "dict", event |-> "absent", config |-> "absent",
     thought_config |-> "absent", seed |-> "absent", thought_seed |-> "absent",
     issued |-> <<>>, error |-> "none", message |-> ""]

\* no _generate_content call has been made
NoContext ==
    [call |-> "none", has_memory |-> FALSE, previous_thoughts |-> <<>>,
     context_sections |-> <<>>, thought_lines |-> <<>>]

\* the requests the server works on at a time
RequestSlots == {"r1", "r2"}

\* a slot without a request
NoRequest == [pc |-> "idle", n |-> 0, full_text |-> "", reply |-> NoReply]

\* no generate request is in flight and none has been made
NoRequests == [slot |-> [r \in RequestSlots |-> NoRequest], started |-> 0]

\* The fields of a Thought the store reads: id, config.persistent, score.saliency
StoredThoughts ==
    [id : Ids, saliency : StoreSaliencies, persistent : BOOLEAN]

(***************************************************************************)
(* Python dict, insertion ordered                                          *)
(***************************************************************************)
Keys(d) == {d[i].key : i \in 1 .. Len(d)}

KeyIndex(d, k) == CHOOSE i \in 1 .. Len(d) : d[i].key = k

\* d[k] = t : an existing key keeps its position, a new key goes last
DictSet(d, k, t) ==
    IF k \in Keys(d)
    THEN [d EXCEPT ![KeyIndex(d, k)] = [key |-> k, thought |-> t]]
    ELSE Append(d, [key |-> k, thought |-> t])

\* del d[k]
DictDel(d, k) ==
    LET i == KeyIndex(d, k)
    IN  [j \in 1 .. (Len(d) - 1) |-> IF j < i THEN d[j] ELSE d[j + 1]]

\* list(d.values())
DictValues(d) == [i \in 1 .. Len(d) |-> d[i].thought]

(***************************************************************************)
(* sorted(seq, key = saliency): Python's sort is stable                    *)
(***************************************************************************)
RECURSIVE InsertBySaliency(_, _)
InsertBySaliency(sorted, t) ==
    IF sorted = <<>> THEN <<t>>
    ELSE IF sorted[Len(sorted)].saliency <= t.saliency
         THEN Append(sorted, t)
         ELSE Append(InsertBySaliency(SubSeq(sorted, 1, Len(sorted) - 1), t),
                     sorted[Len(sorted)])

RECURSIVE SortedBySaliency(_)
SortedBySaliency(seq) ==
    IF seq = <<>> THEN <<>>
    ELSE InsertBySaliency(SortedBySaliency(SubSeq(seq, 1, Len(seq) - 1)),
                          seq[Len(seq)])

(***************************************************************************)
(* ThoughtStore                                                            *)
(***************************************************************************)
\* remove_thought: del self.thoughts[thought_id] when the key is present
RemoveThoughtResult(d, thought_id) ==
    IF thought_id \in Keys(d) THEN DictDel(d, thought_id) ELSE d

\* the filter loop without its test of config.persistent
FilteredThoughtsKeepingAll(d) == DictValues(d)

\* the filter loop of _prune_least_salient_thought
FilteredThoughts(d) ==
    SelectSeq(DictValues(d), LAMBDA t : ~t.persistent)

\* _prune_least_salient_thought
PruneLeastSalientThought(d) ==
    IF d = <<>> THEN d
    ELSE LET sorted_thoughts == SortedBySaliency(FilteredThoughts(d))
         IN  IF sorted_thoughts # <<>>
             THEN RemoveThoughtResult(d, sorted_thoughts[1].id)
             ELSE d

\* add_thought
AddThoughtResult(d, cap, thought) ==
    LET stored == DictSet(d, thought.id, thought)
    IN  IF Len(stored) > cap THEN PruneLeastSalientThought(stored) ELSE stored

\* update_thought
UpdateThoughtResult(d, thought_id, new_thought) ==
    IF thought_id \in Keys(d) THEN DictSet(d, thought_id, new_thought) ELSE d

\* the while loop of set_max_thought_count: the store it leaves, and whether
\* it returns at all (a prune that removes nothing leaves the loop condition
\* true for ever)
RECURSIVE PruneLoop(_, _)
PruneLoop(d, cap) ==
    IF Len(d) > cap
    THEN LET pruned == PruneLeastSalientThought(d)
         IN  IF pruned = d
             THEN [thoughts |-> d, returns |-> FALSE]
             ELSE PruneLoop(pruned, cap)
    ELSE [thoughts |-> d, returns |-> TRUE]

\* ThoughtStore.__init__ and MemoryStore.__init__; no operation is under way
Init ==
    /\ thoughts = <<>>
    /\ max_thought_count = InitialMaxThoughtCount
    /\ pc = "idle"
    /\ last = "init"
    /\ thought_list = <<>>
    /\ history = <<>>
    /\ memory = EmptyMemory
    /\ max_short_term_count = InitialMaxShortTermCount
    /\ max_long_term_count = InitialMaxLongTermCount
    /\ operations = EmptyRegistry
    /\ outcome = NoOutcome
    /\ generated = NotGenerated
    /\ similarity = NoSimilarity
    /\ gateway = NoGateway
    /\ articulated = NotArticulated
    /\ api_generated = NoApiGenerated
    /\ requests = NoRequests
    /\ context = NoContext

add_thought(thought) ==
    /\ pc = "idle"
    /\ thoughts' = AddThoughtResult(thoughts, max_thought_count, thought)
    /\ last' = "add_thought"
    /\ UNCHANGED <<max_thought_count, pc>>
    /\ UNCHANGED nonStoreVars

update_thought(thought_id, new_thought) ==
    /\ pc = "idle"
    /\ thoughts' = UpdateThoughtResult(thoughts, thought_id, new_thought)
    /\ last' = "update_thought"
    /\ UNCHANGED <<max_thought_count, pc>>
    /\ UNCHANGED nonStoreVars

remove_thought(thought_id) ==
    /\ pc = "idle"
    /\ thoughts' = RemoveThoughtResult(thoughts, thought_id)
    /\ last' = "remove_thought"
    /\ UNCHANGED <<max_thought_count, pc>>
    /\ UNCHANGED nonStoreVars

clear ==
    /\ pc = "idle"
    /\ thoughts' = <<>>
    /\ last' = "clear"
    /\ UNCHANGED <<max_thought_count, pc>>
    /\ UNCHANGED nonStoreVars

set_max_thought_count(count) ==
    /\ pc = "idle"
    /\ max_thought_count' = count
    /\ LET loop == PruneLoop(thoughts, count)
       IN  /\ thoughts' = loop.thoughts
           /\ pc' = IF loop.returns THEN "idle" ELSE "hung"
    /\ last' = "set_max_thought_count"
    /\ UNCHANGED nonStoreVars

StoreNext ==
    \/ \E t \in StoredThoughts : add_thought(t)
    \/ \E k \in Ids, t \in StoredThoughts : update_thought(k, t)
    \/ \E k \in Ids : remove_thought(k)
    \/ clear
    \/ \E n \in Counts : set_max_thought_count(n)

Spec == Init /\ [][StoreNext]_vars

\* The store as the operate route drives it (routes/thoughts.py:173-177):
\* update_thought(thought.id, thought), so a thought is stored under its own id
KeyedNext ==
    \/ \E t \in StoredThoughts : add_thought(t)
    \/ \E t \in StoredThoughts : update_thought(t.id, t)
    \/ \E k \in Ids : remove_thought(k)
    \/ clear
    \/ \E n \in Counts : set_max_thought_count(n)

SpecKeyed == Init /\ [][KeyedNext]_vars

(***************************************************************************)
(* MemoryStore                                                             *)
(***************************************************************************)
\* the most items the two tiers hold together before an item is added
MaxMemoryItems == 3

\* the largest capacity handed to set_max_memory_count
MaxMemoryCount == 1

\* memory item ids: nothing in the store keeps them distinct
MemoryIds == {"m1", "m2"}

\* timestamps.created of a memory item
Createds == {1, 2}

\* The fields of a MemoryItem the store reads: id, type, timestamps.created
MemoryItems ==
    [id : MemoryIds, type : {"LONG_TERM", "SHORT_TERM"}, created : Createds]

\* the capacities set_max_memory_count is called with (int, any sign)
MemoryCounts == (0 - 1) .. MaxMemoryCount

\* sorted(items, key = timestamps.created): Python's sort is stable
RECURSIVE InsertByCreated(_, _)
InsertByCreated(sorted, m) ==
    IF sorted = <<>> THEN <<m>>
    ELSE IF sorted[Len(sorted)].created <= m.created
         THEN Append(sorted, m)
         ELSE Append(InsertByCreated(SubSeq(sorted, 1, Len(sorted) - 1), m),
                     sorted[Len(sorted)])

RECURSIVE SortedByCreated(_)
SortedByCreated(seq) ==
    IF seq = <<>> THEN <<>>
    ELSE InsertByCreated(SortedByCreated(SubSeq(seq, 1, Len(seq) - 1)),
                         seq[Len(seq)])

\* for i, item in enumerate(items): if item.id == memory_id: the first match
HasMemoryId(items, memory_id) ==
    \E i \in 1 .. Len(items) : items[i].id = memory_id

FirstWithId(items, memory_id) ==
    CHOOSE i \in 1 .. Len(items) :
        /\ items[i].id = memory_id
        /\ \A j \in 1 .. (i - 1) : items[j].id # memory_id

\* items.pop(i)
Pop(items, i) ==
    [j \in 1 .. (Len(items) - 1) |-> IF j < i THEN items[j] ELSE items[j + 1]]

\* remove_memory_item: long_term is searched first, then short_term
RemoveMemoryItemResult(m, memory_id) ==
    IF HasMemoryId(m.long_term, memory_id)
    THEN [m EXCEPT !.long_term = Pop(@, FirstWithId(@, memory_id))]
    ELSE IF HasMemoryId(m.short_term, memory_id)
    THEN [m EXCEPT !.short_term = Pop(@, FirstWithId(@, memory_id))]
    ELSE m

\* update_memory_item: the first match is replaced, long_term searched first;
\* the type of updated_item is not looked at
UpdateMemoryItemResult(m, memory_id, updated_item) ==
    IF HasMemoryId(m.long_term, memory_id)
    THEN [m EXCEPT !.long_term[FirstWithId(m.long_term, memory_id)] = updated_item]
    ELSE IF HasMemoryId(m.short_term, memory_id)
    THEN [m EXCEPT !.short_term[FirstWithId(m.short_term, memory_id)] = updated_item]
    ELSE m

\* _prune_oldest_memory
PruneOldestMemory(m, memory_type) ==
    IF memory_type = "LONG_TERM" /\ m.long_term # <<>>
    THEN RemoveMemoryItemResult(m, SortedByCreated(m.long_term)[1].id)
    ELSE IF memory_type = "SHORT_TERM" /\ m.short_term # <<>>
    THEN RemoveMemoryItemResult(m, SortedByCreated(m.short_term)[1].id)
    ELSE m

\* add_memory_item
AddMemoryItemResult(m, short_cap, long_cap, memory_item) ==
    IF memory_item.type = "SHORT_TERM"
    THEN LET added == [m EXCEPT !.short_term = Append(@, memory_item)]
         IN  IF Len(added.short_term) > short_cap
             THEN PruneOldestMemory(added, "SHORT_TERM")
             ELSE added
    ELSE IF memory_item.type = "LONG_TERM"
    THEN LET added == [m EXCEPT !.long_term = Append(@, memory_item)]
         IN  IF Len(added.long_term) > long_cap
             THEN PruneOldestMemory(added, "LONG_TERM")
             ELSE added
    ELSE m

TierOf(m, memory_type) ==
    IF memory_type = "SHORT_TERM" THEN m.short_term ELSE m.long_term

\* one while loop of set_max_memory_count: the memory it leaves, and whether
\* it returns at all (a prune that removes nothing leaves the loop condition
\* true for ever)
RECURSIVE MemoryPruneLoop(_, _, _)
MemoryPruneLoop(m, memory_type, cap) ==
    IF Len(TierOf(m, memory_type)) > cap
    THEN LET pruned == PruneOldestMemory(m, memory_type)
         IN  IF pruned = m
             THEN [memory |-> m, returns |-> FALSE]
             ELSE MemoryPruneLoop(pruned, memory_type, cap)
    ELSE [memory |-> m, returns |-> TRUE]

\* the two loops of set_max_memory_count, the short-term one first
SetMaxMemoryCountResult(m, short_term_count, long_term_count) ==
    LET short == MemoryPruneLoop(m, "SHORT_TERM", short_term_count)
    IN  IF short.returns
        THEN MemoryPruneLoop(short.memory, "LONG_TERM", long_term_count)
        ELSE short

add_memory_item(memory_item) ==
    /\ pc = "idle"
    /\ Len(memory.long_term) + Len(memory.short_term) < MaxMemoryItems
    /\ memory' = AddMemoryItemResult(memory, max_short_term_count,
                                     max_long_term_count, memory_item)
    /\ last' = "add_memory_item"
    /\ UNCHANGED <<max_short_term_count, max_long_term_count, pc>>
    /\ UNCHANGED nonMemVars

update_memory_item(memory_id, updated_item) ==
    /\ pc = "idle"
    /\ memory' = UpdateMemoryItemResult(memory, memory_id, updated_item)
    /\ last' = "update_memory_item"
    /\ UNCHANGED <<max_short_term_count, max_long_term_count, pc>>
    /\ UNCHANGED nonMemVars

remove_memory_item(memory_id) ==
    /\ pc = "idle"
    /\ memory' = RemoveMemoryItemResult(memory, memory_id)
    /\ last' = "remove_memory_item"
    /\ UNCHANGED <<max_short_term_count, max_long_term_count, pc>>
    /\ UNCHANGED nonMemVars

\* MemoryStore.clear
clear_memory ==
    /\ pc = "idle"
    /\ memory' = EmptyMemory
    /\ last' = "clear_memory"
    /\ UNCHANGED <<max_short_term_count, max_long_term_count, pc>>
    /\ UNCHANGED nonMemVars

clear_short_term ==
    /\ pc = "idle"
    /\ memory' = [memory EXCEPT !.short_term = <<>>]
    /\ last' = "clear_short_term"
    /\ UNCHANGED <<max_short_term_count, max_long_term_count, pc>>
    /\ UNCHANGED nonMemVars

set_max_memory_count(short_term_count, long_term_count) ==
    /\ pc = "idle"
    /\ max_short_term_count' = short_term_count
    /\ max_long_term_count' = long_term_count
    /\ LET loops == SetMaxMemoryCountResult(memory, short_term_count,
                                            long_term_count)
       IN  /\ memory' = loops.memory
           /\ pc' = IF loops.returns THEN "idle" ELSE "hung"
    /\ last' = "set_max_memory_count"
    /\ UNCHANGED nonMemVars

MemoryNext ==
    \/ \E m \in MemoryItems : add_memory_item(m)
    \/ \E k \in MemoryIds, m \in MemoryItems : update_memory_item(k, m)
    \/ \E k \in MemoryIds : remove_memory_item(k)
    \/ clear_memory
    \/ clear_short_term
    \/ \E s \in MemoryCounts, l \in MemoryCounts : set_max_memory_count(s, l)

SpecMemory == Init /\ [][MemoryNext]_vars

(***************************************************************************)
(* The built-in operations (thought_kit/modules/operations)                *)
(***************************************************************************)
\* the most operations applied to one list
MaxOps == 2

\* the longest list handed to an operation
MaxLen == 2

\* the amount option, in thousandths: any float is accepted
Amounts == {0 - 500, 4, 500}

\* the reaction option
Reactions == {"", "r"}

\* The thoughts the lists are made of.  updated is timestamps.updated, as the
\* time of the thought's creation (0).
SeedThoughts ==
    { [id |-> "t1", interactivity |-> "VIEW", weight |-> 800, saliency |-> 300,
       persistent |-> FALSE, user_comments |-> <<>>, updated |-> 0],
      [id |-> "t2", interactivity |-> "COMMENT", weight |-> 800, saliency |-> 300,
       persistent |-> FALSE, user_comments |-> <<>>, updated |-> 0],
      [id |-> "t3", interactivity |-> "EDIT", weight |-> 900, saliency |-> 663,
       persistent |-> TRUE, user_comments |-> <<"x">>, updated |-> 0],
      [id |-> "t4", interactivity |-> "COMMENT", weight |-> 333, saliency |-> 1000,
       persistent |-> FALSE, user_comments |-> <<>>, updated |-> 0],
      [id |-> "t5", interactivity |-> "VIEW", weight |-> 0, saliency |-> 0,
       persistent |-> TRUE, user_comments |-> <<>>, updated |-> 0] }

InitLists == UNION {[1 .. n -> SeedThoughts] : n \in 0 .. MaxLen}

Min(x, y) == IF x <= y THEN x ELSE y
Max(x, y) == IF x >= y THEN x ELSE y

\* round(x, 2) on thousandths: to the nearest multiple of 10, a half to the
\* even one, as Python's round does
Round2(x) ==
    LET q == x \div 10
        r == x % 10
    IN  IF r < 5 THEN 10 * q
        ELSE IF r > 5 THEN 10 * (q + 1)
        ELSE IF q % 2 = 0 THEN 10 * q ELSE 10 * (q + 1)

\* like_operation.py: the body of like's loop
LikeThoughtCappedAtOne(t, amount) ==
    IF t.interactivity = "VIEW" THEN t
    ELSE [t EXCEPT !.weight = Round2(Min(t.weight + amount, 1000))]

LikeThoughtRaisingSaliency(t, amount) ==
    IF t.interactivity = "VIEW" THEN t
    ELSE [t EXCEPT !.saliency = Round2(Min(t.saliency + amount, 2000 - t.weight))]

LikeThought(t, amount) ==
    IF t.interactivity = "VIEW" THEN t
    ELSE [t EXCEPT !.weight = Round2(Min(t.weight + amount, 2000 - t.saliency))]

like(ts, amount) == [i \in 1 .. Len(ts) |-> LikeThought(ts[i], amount)]

\* like_operation.py: the body of dislike's loop
DislikeThoughtNoFloor(t, amount) ==
    IF t.interactivity = "VIEW" THEN t
    ELSE [t EXCEPT !.weight = Round2(t.weight - amount)]

DislikeThoughtDefaultAmount(t, amount) ==
    IF t.interactivity = "VIEW" THEN t
    ELSE [t EXCEPT !.weight = Round2(Max(t.weight - 100, 0))]

DislikeThought(t, amount) ==
    IF t.interactivity = "VIEW" THEN t
    ELSE [t EXCEPT !.weight = Round2(Max(t.weight - amount, 0))]

dislike(ts, amount) == [i \in 1 .. Len(ts) |-> DislikeThought(ts[i], amount)]

\* react_operation.py: the body of react's loop
ReactThoughtCappedAsLike(t, reaction, amount) ==
    IF t.interactivity = "VIEW" THEN t
    ELSE [t EXCEPT !.user_comments = Append(@, reaction),
                   !.weight = Round2(Min(t.weight + amount, 2000 - t.saliency))]

ReactThoughtIgnoringView(t, reaction, amount) ==
    [t EXCEPT !.user_comments = Append(@, reaction),
              !.weight = Round2(Min(t.weight + amount, 1000))]

ReactThought(t, reaction, amount) ==
    IF t.interactivity = "VIEW" THEN t
    ELSE [t EXCEPT !.user_comments = Append(@, reaction),
                   !.weight = Round2(Min(t.weight + amount, 1000))]

react(ts, reaction, amount) ==
    IF reaction = "" THEN ts
    ELSE [i \in 1 .. Len(ts) |-> ReactThought(ts[i], reaction, amount)]

\* pin_operation.py
pin(ts) == [i \in 1 .. Len(ts) |-> [ts[i] EXCEPT !.persistent = TRUE]]

unpin(ts) == [i \in 1 .. Len(ts) |-> [ts[i] EXCEPT !.persistent = FALSE]]

\* anchor_operation.py
AnchorSkippingView(ts) ==
    [i \in 1 .. Len(ts) |->
        IF ts[i].interactivity = "VIEW" THEN ts[i]
        ELSE [ts[i] EXCEPT !.persistent = TRUE]]

anchor(ts) == [i \in 1 .. Len(ts) |-> [ts[i] EXCEPT !.persistent = TRUE]]

unanchor(ts) == [i \in 1 .. Len(ts) |-> [ts[i] EXCEPT !.persistent = FALSE]]

\* history with one more call: its name, its options, the list before it
Recorded(name, amount, reaction) ==
    Append(history, [name |-> name, amount |-> amount,
                     reaction |-> reaction, before |-> thought_list])

OpLike(amount) ==
    /\ Len(history) < MaxOps
    /\ thought_list' = like(thought_list, amount)
    /\ history' = Recorded("like", amount, "")
    /\ UNCHANGED nonOpVars

OpDislike(amount) ==
    /\ Len(history) < MaxOps
    /\ thought_list' = dislike(thought_list, amount)
    /\ history' = Recorded("dislike", amount, "")
    /\ UNCHANGED nonOpVars

OpReact(reaction, amount) ==
    /\ Len(history) < MaxOps
    /\ thought_list' = react(thought_list, reaction, amount)
    /\ history' = Recorded("react", amount, reaction)
    /\ UNCHANGED nonOpVars

OpPin ==
    /\ Len(history) < MaxOps
    /\ thought_list' = pin(thought_list)
    /\ history' = Recorded("pin", 0, "")
    /\ UNCHANGED nonOpVars

OpUnpin ==
    /\ Len(history) < MaxOps
    /\ thought_list' = unpin(thought_list)
    /\ history' = Recorded("unpin", 0, "")
    /\ UNCHANGED nonOpVars

OpAnchor ==
    /\ Len(history) < MaxOps
    /\ thought_list' = anchor(thought_list)
    /\ history' = Recorded("anchor", 0, "")
    /\ UNCHANGED nonOpVars

OpUnanchor ==
    /\ Len(history) < MaxOps
    /\ thought_list' = unanchor(thought_list)
    /\ history' = Recorded("unanchor", 0, "")
    /\ UNCHANGED nonOpVars

\* a list of thoughts handed to the operator; the store is not involved
OpsInit ==
    /\ thought_list \in InitLists
    /\ history = <<>>
    /\ thoughts = <<>>
    /\ max_thought_count = InitialMaxThoughtCount
    /\ pc = "idle"
    /\ last = "init"
    /\ memory = EmptyMemory
    /\ max_short_term_count = InitialMaxShortTermCount
    /\ max_long_term_count = InitialMaxLongTermCount
    /\ operations = EmptyRegistry
    /\ outcome = NoOutcome
    /\ generated = NotGenerated
    /\ similarity = NoSimilarity
    /\ gateway = NoGateway
    /\ articulated = NotArticulated
    /\ api_generated = NoApiGenerated
    /\ requests = NoRequests
    /\ context = NoContext

OpsNext ==
    \/ \E a \in Amounts : OpLike(a)
    \/ \E a \in Amounts : OpDislike(a)
    \/ \E r \in Reactions, a \in Amounts : OpReact(r, a)
    \/ OpPin
    \/ OpUnpin
    \/ OpAnchor
    \/ OpUnanchor

\* the operations applied to lists of thoughts, the store left alone
SpecOps == OpsInit /\ [][OpsNext]_vars

(***************************************************************************)
(* ThoughtOperator (thought_kit/modules/operator.py) and                   *)
(* ThoughtKitAPI.operate (thought_kit/api.py)                              *)
(***************************************************************************)
\* the functions load_operations finds in operations/*_operation.py
BuiltinFunctions ==
    {"like", "dislike", "react", "pin", "unpin", "anchor", "unanchor"}

\* the names operate is asked for: built-in ones, one never registered
\* ("merge"), one registered by hand ("boost") and the empty name
OperationNames == {"like", "react", "merge", "boost", ""}

\* the names and functions register_operation is called with
RegisteredNames == {"boost"}
RegisteredFunctions == {"like", "pin"}

\* the options operate is called with
OperateAmounts == {500}
OperateReactions == {"r"}

\* self._operations[name](thoughts, memory, **kwargs)
Invoke(func, ts, amount, reaction) ==
    CASE func = "like" -> like(ts, amount)
      [] func = "dislike" -> dislike(ts, amount)
      [] func = "react" -> react(ts, reaction, amount)
      [] func = "pin" -> pin(ts)
      [] func = "unpin" -> unpin(ts)
      [] func = "anchor" -> anchor(ts)
      [] func = "unanchor" -> unanchor(ts)

\* self._operations[name] = func
Registered(ops, name, func) ==
    [n \in (DOMAIN ops) \cup {name} |-> IF n = name THEN func ELSE ops[n]]

\* load_operations: every built-in function is registered under its own name
Loaded(ops) ==
    [n \in (DOMAIN ops) \cup BuiltinFunctions |->
        IF n \in BuiltinFunctions THEN n ELSE ops[n]]

Raised(call, name, error, message) ==
    [call |-> call, name |-> name, error |-> error, message |-> message,
     returned |-> <<>>]

Returned(call, name, ts) ==
    [call |-> call, name |-> name, error |-> "none", message |-> "",
     returned |-> ts]

\* ThoughtOperator.operate: what it raises or returns, and the function it
\* invoked ("" when none)
OperateResultIgnoringUnknown(ops, operation_name, ts, amount, reaction) ==
    IF operation_name \notin DOMAIN ops
    THEN [outcome |-> Returned("operate", operation_name, ts), invoked |-> ""]
    ELSE [outcome |-> Returned("operate", operation_name,
                               Invoke(ops[operation_name], ts, amount, reaction)),
          invoked |-> ops[operation_name]]

OperateResult(ops, operation_name, ts, amount, reaction) ==
    IF operation_name \notin DOMAIN ops
    THEN [outcome |-> Raised("operate", operation_name, "ValueError",
                             "No operation named has been registered"),
          invoked |-> ""]
    ELSE [outcome |-> Returned("operate", operation_name,
                               Invoke(ops[operation_name], ts, amount, reaction)),
          invoked |-> ops[operation_name]]

\* from_json(thought_data, Thought): Score validates weight and saliency
\* (ge=0.0, le=1.0)
ValidThought(t) ==
    /\ t.weight >= 0 /\ t.weight <= 1000
    /\ t.saliency >= 0 /\ t.saliency <= 1000

\* ThoughtKitAPI.operate on data = {operation, thoughts, options}: the checks
\* of the input, the conversion of the thoughts, the operator's call
ApiOperateResult(ops, operation, thoughts_data, amount, reaction) ==
    IF operation = ""
    THEN [outcome |-> Raised("api.operate", operation, "ValueError",
                             "Operation name is required in input_data"),
          invoked |-> ""]
    ELSE IF thoughts_data = <<>>
    THEN [outcome |-> Raised("api.operate", operation, "ValueError",
                             "Thoughts are required in input_data"),
          invoked |-> ""]
    ELSE IF \E i \in 1 .. Len(thoughts_data) : ~ValidThought(thoughts_data[i])
    THEN [outcome |-> Raised("api.operate", operation, "ValidationError", ""),
          invoked |-> ""]
    ELSE LET done == OperateResult(ops, operation, thoughts_data, amount, reaction)
         IN  [outcome |-> [done.outcome EXCEPT !.call = "api.operate"],
              invoked |-> done.invoked]

register_operation(name, func) ==
    /\ operations' = Registered(operations, name, func)
    /\ outcome' = Returned("register_operation", name, <<>>)
    /\ UNCHANGED <<nonRegistryVars, opVars>>

load_operations ==
    /\ operations' = Loaded(operations)
    /\ outcome' = Returned("load_operations", "", <<>>)
    /\ UNCHANGED <<nonRegistryVars, opVars>>

\* operator.operate(operation_name, thoughts, **kwargs) on the caller's list:
\* the operation mutates it in place
operate(operation_name, amount, reaction) ==
    /\ Len(history) < MaxOps
    /\ LET done == OperateResult(operations, operation_name, thought_list,
                                 amount, reaction)
       IN  /\ outcome' = done.outcome
           /\ IF done.invoked = ""
              THEN UNCHANGED <<thought_list, history>>
              ELSE /\ thought_list' = done.outcome.returned
                   /\ history' = Recorded(done.invoked, amount, reaction)
    /\ UNCHANGED <<nonRegistryVars, operations>>

\* thoughtkit.operate(data): the operation works on Thought objects built
\* from the data, the caller's data is left as it is
api_operate(operation, amount, reaction) ==
    /\ Len(history) < MaxOps
    /\ LET done == ApiOperateResult(operations, operation, thought_list,
                                    amount, reaction)
       IN  /\ outcome' = done.outcome
           /\ history' = IF done.invoked = "" THEN history
                         ELSE Recorded(done.invoked, amount, reaction)
    /\ UNCHANGED <<nonRegistryVars, operations, thought_list>>

\* a ThoughtOperator with nothing registered and a list of thoughts
OperateInit ==
    /\ thought_list \in InitLists
    /\ history = <<>>
    /\ thoughts = <<>>
    /\ max_thought_count = InitialMaxThoughtCount
    /\ pc = "idle"
    /\ last = "init"
    /\ memory = EmptyMemory
    /\ max_short_term_count = InitialMaxShortTermCount
    /\ max_long_term_count = InitialMaxLongTermCount
    /\ operations = EmptyRegistry
    /\ outcome = NoOutcome
    /\ generated = NotGenerated
    /\ similarity = NoSimilarity
    /\ gateway = NoGateway
    /\ articulated = NotArticulated
    /\ api_generated = NoApiGenerated
    /\ requests = NoRequests
    /\ context = NoContext

OperateNext ==
    \/ \E n \in RegisteredNames, f \in RegisteredFunctions : register_operation(n, f)
    \/ load_operations
    \/ \E n \in OperationNames, a \in OperateAmounts, r \in OperateReactions :
          operate(n, a, r)
    \/ \E n \in OperationNames, a \in OperateAmounts, r \in OperateReactions :
          api_operate(n, a, r)

SpecOperate == OperateInit /\ [][OperateNext]_vars

(***************************************************************************)
(* ThoughtGenerator.generate and the generate route                        *)
(***************************************************************************)
\* ids of generated thoughts (thought_<uuid>): each one is fresh
GeneratedIds == {"g1", "g2"}

\* the text of the triggering event
EventTexts == {"Tell me about exercise.", " "}

\* the texts that are empty after text.strip()
BlankTexts == {"", " "}

\* The config generate is handed, as generate reads it: config.weight (a
\* config without that attribute raises AttributeError) and config.persistent
Configs ==
    {[has_weight |-> TRUE, weight |-> w, persistent |-> FALSE] :
        w \in {0, 500, 900, 1200}}
    \cup {[has_weight |-> FALSE, weight |-> 0, persistent |-> FALSE]}

\* the config the generate route builds: weight 0.5, persistent False
RouteConfig == [has_weight |-> TRUE, weight |-> 500, persistent |-> FALSE]

\* what the embedding service gives for a text that is not blank
Embeddings ==
    { [kind |-> "vector", vec |-> <<1, 0>>],
      [kind |-> "vector", vec |-> <<5, 1>>],
      [kind |-> "vector", vec |-> <<4, 3>>] }

EmbeddingFailure == [kind |-> "LLMAPIError", vec |-> <<>>]

\* The completion reply: raw is its text, and the other fields say what
\* json.loads makes of it.  kind: "invalid" (not JSON), "array" (JSON, not an
\* object) or "object"; for an object, whether it has a "thought" and what
\* its "saliency" is: absent, a number, a numeric string, another string or
\* null.  The saliency is in thousandths (7 is 7000).
Replies ==
    { [raw |-> "I think so", kind |-> "invalid", has_thought |-> FALSE,
       thought |-> "", saliency_is |-> "absent", saliency |-> 0],
      [raw |-> " ", kind |-> "invalid", has_thought |-> FALSE,
       thought |-> "", saliency_is |-> "absent", saliency |-> 0],
      [raw |-> "[1]", kind |-> "array", has_thought |-> FALSE,
       thought |-> "", saliency_is |-> "absent", saliency |-> 0],
      [raw |-> "{thought: idea, saliency: 7}", kind |-> "object",
       has_thought |-> TRUE, thought |-> "idea",
       saliency_is |-> "number", saliency |-> 7000],
      [raw |-> "{thought: idea, saliency: '7.5'}", kind |-> "object",
       has_thought |-> TRUE, thought |-> "idea",
       saliency_is |-> "numeric string", saliency |-> 7500],
      [raw |-> "{thought: idea, saliency: 10}", kind |-> "object",
       has_thought |-> TRUE, thought |-> "idea",
       saliency_is |-> "number", saliency |-> 10000],
      [raw |-> "{thought: idea, saliency: 15}", kind |-> "object",
       has_thought |-> TRUE, thought |-> "idea",
       saliency_is |-> "number", saliency |-> 15000],
      [raw |-> "{thought: idea, saliency: -1}", kind |-> "object",
       has_thought |-> TRUE, thought |-> "idea",
       saliency_is |-> "number", saliency |-> 0 - 1000],
      [raw |-> "{thought: idea, saliency: null}", kind |-> "object",
       has_thought |-> TRUE, thought |-> "idea",
       saliency_is |-> "null", saliency |-> 0],
      [raw |-> "{thought: idea, saliency: 'high'}", kind |-> "object",
       has_thought |-> TRUE, thought |-> "idea",
       saliency_is |-> "string", saliency |-> 0],
      [raw |-> "{thought: idea}", kind |-> "object",
       has_thought |-> TRUE, thought |-> "idea",
       saliency_is |-> "absent", saliency |-> 0],
      [raw |-> "{thought: ' ', saliency: 3}", kind |-> "object",
       has_thought |-> TRUE, thought |-> " ",
       saliency_is |-> "number", saliency |-> 3000],
      [raw |-> "{saliency: 3}", kind |-> "object",
       has_thought |-> FALSE, thought |-> "",
       saliency_is |-> "number", saliency |-> 3000] }

\* get_embedding(text): ValueError for a text that is blank after strip(),
\* else what the service gives (a vector, or LLMAPIError)
get_embedding(text, service) ==
    IF text \in BlankTexts
    THEN [kind |-> "ValueError", vec |-> <<>>]
    ELSE service

\* float(response_data.get("saliency", 0)): the error it raises, or "none"
FloatError(reply) ==
    CASE reply.saliency_is = "null" -> "TypeError"
      [] reply.saliency_is = "string" -> "ValueError"
      [] OTHER -> "none"

\* _generate_content, from the reply on: the try block and its except clause
\* for json.JSONDecodeError and ValueError
GenerateContent(reply) ==
    IF reply.kind = "invalid"
    THEN [error |-> "none", text |-> reply.raw, saliency |-> 0]
    ELSE IF reply.kind # "object"
    THEN [error |-> "AttributeError", text |-> "", saliency |-> 0]
    ELSE IF FloatError(reply) = "ValueError"
    THEN [error |-> "none", text |-> reply.raw, saliency |-> 0]
    ELSE IF FloatError(reply) # "none"
    THEN [error |-> FloatError(reply), text |-> "", saliency |-> 0]
    ELSE [error |-> "none",
          text |-> IF reply.has_thought THEN reply.thought ELSE "",
          saliency |-> IF reply.saliency_is = "absent" THEN 0
                       ELSE reply.saliency \div 10]

\* Score(weight=..., saliency=...): both fields are validated, ge=0.0, le=1.0
ScoreIsValid(weight, saliency) ==
    /\ weight >= 0 /\ weight <= 1000
    /\ saliency >= 0 /\ saliency <= 1000

Failed(call, event_text, reply, config, content, error) ==
    [call |-> call, event_text |-> event_text, reply |-> reply,
     config |-> config, content |-> content, error |-> error,
     thought |-> NoThought]

\* ThoughtGenerator.generate: the event and its embedding, the content, the
\* embedding of the content, the score; id is the fresh id of the Thought
GenerateResultUnvalidated(call, id, event_text, event_service, reply, config, service) ==
    LET content == GenerateContent(reply)
        embedding == get_embedding(content.text, service)
    IN  IF get_embedding(event_text, event_service).kind # "vector"
        THEN Failed(call, event_text, reply, config, NoContent,
                    get_embedding(event_text, event_service).kind)
        ELSE IF content.error # "none"
        THEN Failed(call, event_text, reply, config, content, content.error)
        ELSE IF embedding.kind # "vector"
        THEN Failed(call, event_text, reply, config, content, embedding.kind)
        ELSE IF ~config.has_weight
        THEN Failed(call, event_text, reply, config, content, "AttributeError")
        ELSE [call |-> call, event_text |-> event_text, reply |-> reply,
              config |-> config, content |-> content, error |-> "none",
              thought |-> [id |-> id, text |-> content.text,
                           embedding |-> embedding,
                           weight |-> config.weight,
                           saliency |-> content.saliency,
                           persistent |-> config.persistent]]

GenerateResult(call, id, event_text, event_service, reply, config, service) ==
    LET content == GenerateContent(reply)
        embedding == get_embedding(content.text, service)
    IN  IF get_embedding(event_text, event_service).kind # "vector"
        THEN Failed(call, event_text, reply, config, NoContent,
                    get_embedding(event_text, event_service).kind)
        ELSE IF content.error # "none"
        THEN Failed(call, event_text, reply, config, content, content.error)
        ELSE IF embedding.kind # "vector"
        THEN Failed(call, event_text, reply, config, content, embedding.kind)
        ELSE IF ~config.has_weight
        THEN Failed(call, event_text, reply, config, content, "AttributeError")
        ELSE IF ~ScoreIsValid(config.weight, content.saliency)
        THEN Failed(call, event_text, reply, config, content, "ValidationError")
        ELSE [call |-> call, event_text |-> event_text, reply |-> reply,
              config |-> config, content |-> content, error |-> "none",
              thought |-> [id |-> id, text |-> content.text,
                           embedding |-> embedding,
                           weight |-> config.weight,
                           saliency |-> content.saliency,
                           persistent |-> config.persistent]]

\* the rolling short-term item: the text of short_term[index] is replaced
\* in place; its id, type and timestamps.created stay
UpdateMemoryItemByIndexResult(m, index, memory_type, text) ==
    [m EXCEPT !.short_term[index + 1].text = text]

\* request.event_text of the route's requests
FullTexts == {"Tell me about exercise.", "Tell me about exercise. Why?", " "}

\* the last of the sentences re.split gives that are not blank, or the full
\* text when there is none
LastSentence(full_text) ==
    IF full_text = "Tell me about exercise. Why?" THEN "Why?" ELSE full_text

\* a variant of RouteMemory that adds a new item on every generation
RouteMemoryAlwaysAdding(m, short_cap, long_cap, memory_id, now, full_text) ==
    AddMemoryItemResult(m, short_cap, long_cap,
        [id |-> memory_id, type |-> "SHORT_TERM", created |-> now,
         text |-> full_text])

\* the memory the generate route leaves after a generation
RouteMemory(m, short_cap, long_cap, memory_id, now, full_text) ==
    IF m.short_term # <<>>
    THEN UpdateMemoryItemByIndexResult(m, 0, "SHORT_TERM", full_text)
    ELSE AddMemoryItemResult(m, short_cap, long_cap,
             [id |-> memory_id, type |-> "SHORT_TERM", created |-> now,
              text |-> full_text])

\* generator.generate(event_input, seed, config, ...), called directly
generate(id, event_text, event_service, reply, config, service) ==
    /\ pc = "idle"
    /\ generated' = GenerateResult("generate", id, event_text, event_service,
                                   reply, config, service)
    /\ UNCHANGED <<storeVars, memVars, opVars, registryVars, utilVars, requests>>

\* a variant of the route that stores what generate gave before it looks at
\* how generate ended
generate_thought_storing_first(id, full_text, event_service, reply, service, memory_id, now) ==
    /\ pc = "idle"
    /\ id \notin Keys(thoughts)
    /\ generated' = GenerateResult("generate_thought", id,
                                   LastSentence(full_text), event_service,
                                   reply, RouteConfig, service)
    /\ thoughts' = AddThoughtResult(thoughts, max_thought_count,
                                    generated'.thought)
    /\ memory' = RouteMemory(memory, max_short_term_count,
                             max_long_term_count, memory_id, now, full_text)
    /\ last' = "generate_thought"
    /\ UNCHANGED <<max_thought_count, pc, max_short_term_count,
                   max_long_term_count, opVars, registryVars, utilVars,
                   requests>>

\* POST /thoughts/generate: generate, then thought_store.add_thought(result),
\* then the short-term memory; an exception leaves what was done before it
generate_thought(id, full_text, event_service, reply, service, memory_id, now) ==
    /\ pc = "idle"
    /\ id \notin Keys(thoughts)
    /\ LET done == GenerateResult("generate_thought", id,
                                  LastSentence(full_text), event_service,
                                  reply, RouteConfig, service)
       IN  /\ generated' = done
           /\ IF done.error # "none"
              THEN UNCHANGED <<thoughts, memory>>
              ELSE /\ thoughts' = AddThoughtResult(thoughts, max_thought_count,
                                                   done.thought)
                   /\ memory' = RouteMemory(memory, max_short_term_count,
                                            max_long_term_count, memory_id,
                                            now, full_text)
    /\ last' = "generate_thought"
    /\ UNCHANGED <<max_thought_count, pc, max_short_term_count,
                   max_long_term_count, opVars, registryVars, utilVars,
                   requests>>

\* the results of the embedding service for the event's text
EventEmbeddings == {[kind |-> "vector", vec |-> <<1, 0>>], EmbeddingFailure}

GenerateNext ==
    \E id \in GeneratedIds, e \in EventTexts, es \in EventEmbeddings,
       r \in Replies, c \in Configs, sv \in Embeddings \cup {EmbeddingFailure} :
       generate(id, e, es, r, c, sv)

\* ThoughtGenerator.generate called on its own
SpecGenerate == Init /\ [][GenerateNext]_vars

\* the replies the route's generations get: a well-formed one, one that is
\* not JSON and one that is not an object
RouteReplies ==
    {r \in Replies : r.raw \in {"{thought: idea, saliency: 7}", "I think so", "[1]"}}

RouteNext ==
    \E id \in GeneratedIds, e \in FullTexts, es \in EventEmbeddings,
       r \in RouteReplies, sv \in Embeddings \cup {EmbeddingFailure},
       k \in MemoryIds, now \in Createds :
       generate_thought(id, e, es, r, sv, k, now)

\* the generate route with the two stores behind it
SpecRoute == Init /\ [][RouteNext]_vars

(***************************************************************************)
(* Helpers of the store claims                                             *)
(***************************************************************************)
AllPersistent(d) == \A i \in 1 .. Len(d) : d[i].thought.persistent

SeqRemoveAt(d, i) ==
    [j \in 1 .. (Len(d) - 1) |-> IF j < i THEN d[j] ELSE d[j + 1]]

\* the entry an eviction is to remove: the first, in iteration order, of the
\* non-persistent entries of minimum saliency
IsEvictionVictim(d, i) ==
    /\ i \in 1 .. Len(d)
    /\ ~d[i].thought.persistent
    /\ \A j \in 1 .. Len(d) :
          ~d[j].thought.persistent =>
              /\ d[i].thought.saliency <= d[j].thought.saliency
              /\ (j < i => d[i].thought.saliency < d[j].thought.saliency)

\* evictions repeated until the store fits or only persistent thoughts remain
RECURSIVE EvictedUntilFits(_, _)
EvictedUntilFits(d, cap) ==
    IF Len(d) <= cap \/ AllPersistent(d) THEN d
    ELSE EvictedUntilFits(
             SeqRemoveAt(d, CHOOSE i \in 1 .. Len(d) : IsEvictionVictim(d, i)),
             cap)

(***************************************************************************)
(* C1: right after every add_thought or set_max_thought_count call that    *)
(* returns, the store holds at most max_thought_count thoughts, unless     *)
(* every stored thought is persistent.                                     *)
(***************************************************************************)
C1_WithinCapacityAfterAddOrSetMax ==
    (pc = "idle" /\ last \in {"add_thought", "set_max_thought_count"}) =>
        (Len(thoughts) <= max_thought_count \/ AllPersistent(thoughts))

(***************************************************************************)
(* C2: every capacity-driven eviction removes exactly one thought, the     *)
(* first in iteration order of the non-persistent thoughts of minimum      *)
(* saliency stored at that moment (add_thought evicts once from the store  *)
(* that holds the new thought; set_max_thought_count evicts repeatedly).   *)
(***************************************************************************)
C2_EvictionRemovesLeastSalient ==
    [][ /\ \A t \in StoredThoughts :
             add_thought(t) =>
                 LET stored == DictSet(thoughts, t.id, t)
                 IN  (Len(stored) > max_thought_count /\ ~AllPersistent(stored)) =>
                         \E i \in 1 .. Len(stored) :
                             /\ IsEvictionVictim(stored, i)
                             /\ thoughts' = SeqRemoveAt(stored, i)
        /\ \A n \in Counts :
             (set_max_thought_count(n) /\ pc' = "idle") =>
                 thoughts' = EvictedUntilFits(thoughts, n)
      ]_vars

(***************************************************************************)
(* C3: add_thought and set_max_thought_count never remove a persistent     *)
(* thought: every persistent entry, other than the one add_thought itself  *)
(* overwrites, is still stored unchanged after the call.                   *)
(***************************************************************************)
C3_PersistentNeverEvicted ==
    [][ /\ \A t \in StoredThoughts :
             add_thought(t) =>
                 \A i \in 1 .. Len(thoughts) :
                     (thoughts[i].thought.persistent /\ thoughts[i].key # t.id) =>
                         \E j \in 1 .. Len(thoughts') : thoughts'[j] = thoughts[i]
        /\ \A n \in Counts :
             (set_max_thought_count(n) /\ pc' = "idle") =>
                 \A i \in 1 .. Len(thoughts) :
                     thoughts[i].thought.persistent =>
                         \E j \in 1 .. Len(thoughts') : thoughts'[j] = thoughts[i]
      ]_vars

(***************************************************************************)
(* Helpers of the operation claims                                         *)
(***************************************************************************)
\* the call made last, and the list it was handed
LastCall == history[Len(history)]

Called(name) == history # <<>> /\ LastCall.name = name

Mutable(t) == t.interactivity # "VIEW"

Distance(x, y) == IF x >= y THEN x - y ELSE y - x

\* r is x rounded to 2 decimals: the nearest multiple of 0.01, and of two
\* equally near ones the even one
IsRoundedTo2(r, x) ==
    /\ r % 10 = 0
    /\ Distance(r, x) <= 5
    /\ (Distance(r, x) = 5 => (r \div 10) % 2 = 0)

\* m is the smaller (larger) of x and y
IsMinOf(m, x, y) == m \in {x, y} /\ m <= x /\ m <= y
IsMaxOf(m, x, y) == m \in {x, y} /\ m >= x /\ m >= y

(***************************************************************************)
(* C4: whatever like, dislike and react calls are made, score.weight of    *)
(* every thought stays within [0, 1].                                      *)
(***************************************************************************)
C4_WeightStaysInUnitInterval ==
    (\A k \in 1 .. Len(history) : history[k].name \in {"like", "dislike", "react"}) =>
        \A i \in 1 .. Len(thought_list) :
            thought_list[i].weight >= 0 /\ thought_list[i].weight <= 1000

C6_RepeatedLikeKeepsSumWithinTwo ==
    (/\ history # <<>>
     /\ \A k \in 1 .. Len(history) :
            history[k].name = "like" /\ history[k].amount = 500) =>
        \A i \in 1 .. Len(thought_list) :
            thought_list[i].weight + thought_list[i].saliency <= 2000

(***************************************************************************)
(* C7, as claimed: like(amount) then dislike(amount) brings the weight of  *)
(* every COMMENT or EDIT thought back to what it was, to 2 decimals        *)
(* (within 0.01), and leaves a VIEW thought as it was.                     *)
(***************************************************************************)
LikeThenDislike ==
    /\ Len(history) >= 2
    /\ history[Len(history) - 1].name = "like"
    /\ LastCall.name = "dislike"
    /\ history[Len(history) - 1].amount = LastCall.amount

BeforeLike == history[Len(history) - 1].before

C7_LikeThenDislikeRestoresWeight ==
    LikeThenDislike =>
        \A i \in 1 .. Len(thought_list) :
            IF Mutable(BeforeLike[i])
            THEN Distance(thought_list[i].weight, BeforeLike[i].weight) <= 10
            ELSE thought_list[i] = BeforeLike[i]

(***************************************************************************)
(* C7, amended: the same, for the thoughts of weight >= 0 that the like    *)
(* does not clamp (weight + amount <= 2.0 - saliency); the weight comes    *)
(* back exactly when weight and amount are multiples of 0.01.              *)
(***************************************************************************)
C7_UnclampedLikeThenDislikeRestoresWeight ==
    LikeThenDislike =>
        \A i \in 1 .. Len(thought_list) :
            LET b == BeforeLike[i]
            IN  IF Mutable(b)
                THEN (b.weight >= 0 /\ b.weight + LastCall.amount <= 2000 - b.saliency) =>
                        /\ Distance(thought_list[i].weight, b.weight) <= 10
                        /\ (b.weight % 10 = 0 /\ LastCall.amount % 10 = 0) =>
                               thought_list[i].weight = b.weight
                ELSE thought_list[i] = b

\* like(0.5) then dislike(0.5) brought a COMMENT thought back to 0.8, moved an
\* off-grid weight 0.333 by no more than 0.01 with amount 0.004, and left a VIEW
\* thought alone
C7_RoundTripReached ==
    /\ LikeThenDislike
    /\ Len(thought_list) = 2
    /\ Mutable(BeforeLike[1])
    /\ \/ /\ LastCall.amount = 500
          /\ BeforeLike[1].weight = 800
          /\ history[Len(history)].before[1].weight = 1300
          /\ thought_list[1].weight = 800
       \/ /\ LastCall.amount = 4
          /\ BeforeLike[1].weight = 333
          /\ thought_list[1].weight = 340
    /\ ~Mutable(BeforeLike[2])
    /\ thought_list[2] = BeforeLike[2]

(***************************************************************************)
(* C8: react with an empty reaction changes nothing; with a reaction it    *)
(* appends the reaction to user_comments, as the last element, and sets    *)
(* score.weight = round(min(weight + amount, 1.0), 2) on every thought it  *)
(* mutates (the thoughts that are not VIEW).                               *)
(***************************************************************************)
C8_ReactAppendsAndCapsAtOne ==
    Called("react") =>
        IF LastCall.reaction = ""
        THEN thought_list = LastCall.before
        ELSE /\ Len(thought_list) = Len(LastCall.before)
             /\ \A i \in 1 .. Len(thought_list) :
                   LET b == LastCall.before[i]
                       t == thought_list[i]
                   IN  IF Mutable(b)
                       THEN /\ Len(t.user_comments) = Len(b.user_comments) + 1
                            /\ t.user_comments[Len(t.user_comments)] = LastCall.reaction
                            /\ SubSeq(t.user_comments, 1, Len(b.user_comments))
                                   = b.user_comments
                            /\ \E m \in {b.weight + LastCall.amount, 1000} :
                                   /\ IsMinOf(m, b.weight + LastCall.amount, 1000)
                                   /\ IsRoundedTo2(t.weight, m)
                       ELSE t = b

\* react("r", 0.5) on weight 0.8, saliency 0.3 capped the weight at 1.0 (like
\* gives 1.3 there) and appended "r"; elsewhere an empty reaction was a no-op
C8_ReactedReached ==
    /\ Called("react") /\ LastCall.reaction = "r" /\ LastCall.amount = 500
    /\ Len(thought_list) = 2
    /\ Mutable(LastCall.before[1])
    /\ LastCall.before[1].weight = 800 /\ LastCall.before[1].saliency = 300
    /\ thought_list[1].weight = 1000
    /\ thought_list[1].user_comments = <<"r">>
    /\ LastCall.before[2].user_comments = <<"x">>
    /\ thought_list[2].user_comments = <<"x", "r">>

(***************************************************************************)
(* C9: dislike(thoughts, amount) leaves every non-VIEW thought with        *)
(* score.weight = round(max(weight - amount, 0.0), 2), never below 0, and  *)
(* every VIEW thought unchanged.                                           *)
(***************************************************************************)
C9_DislikeFloorsAtZero ==
    Called("dislike") =>
        /\ Len(thought_list) = Len(LastCall.before)
        /\ \A i \in 1 .. Len(thought_list) :
              LET b == LastCall.before[i]
                  t == thought_list[i]
              IN  IF Mutable(b)
                  THEN /\ \E m \in {b.weight - LastCall.amount, 0} :
                              /\ IsMaxOf(m, b.weight - LastCall.amount, 0)
                              /\ IsRoundedTo2(t.weight, m)
                       /\ t.weight >= 0
                  ELSE t = b

\* dislike(0.5) floored weight 0.333 at 0 and took 0.8 to 0.3; a VIEW thought of
\* another list kept its weight
C9_DislikedReached ==
    /\ Called("dislike") /\ LastCall.amount = 500
    /\ Len(thought_list) = 2
    /\ Mutable(LastCall.before[1]) /\ LastCall.before[1].weight = 333
    /\ thought_list[1].weight = 0
    /\ Mutable(LastCall.before[2]) /\ LastCall.before[2].weight = 800
    /\ thought_list[2].weight = 300

(***************************************************************************)
(* C10: pin and anchor leave config.persistent true, unpin and unanchor    *)
(* false, on every thought of the list, VIEW or not, persistent before or  *)
(* not; anchor gives what pin gives, and unanchor what unpin gives.        *)
(***************************************************************************)
C10_PinAnchorSetPersistent ==
    /\ (Called("pin") \/ Called("anchor")) =>
           /\ Len(thought_list) = Len(LastCall.before)
           /\ \A i \in 1 .. Len(thought_list) : thought_list[i].persistent = TRUE
           /\ thought_list = pin(LastCall.before)
           /\ thought_list = anchor(LastCall.before)
    /\ (Called("unpin") \/ Called("unanchor")) =>
           /\ Len(thought_list) = Len(LastCall.before)
           /\ \A i \in 1 .. Len(thought_list) : thought_list[i].persistent = FALSE
           /\ thought_list = unpin(LastCall.before)
           /\ thought_list = unanchor(LastCall.before)

\* anchor made a non-persistent VIEW thought persistent and kept a persistent
\* EDIT thought persistent
C10_AnchoredReached ==
    /\ Called("anchor")
    /\ Len(thought_list) = 2
    /\ ~Mutable(LastCall.before[1]) /\ ~LastCall.before[1].persistent
    /\ thought_list[1].persistent
    /\ Mutable(LastCall.before[2]) /\ LastCall.before[2].persistent
    /\ thought_list[2].persistent

(***************************************************************************)
(* C11: no built-in operation (like, dislike, react, pin, unpin, anchor,   *)
(* unanchor), whatever its options, changes score.saliency of a thought:   *)
(* after every call each thought of the list has the saliency it had       *)
(* before the call.                                                        *)
(***************************************************************************)
C11_OperationsKeepSaliency ==
    history # <<>> =>
        /\ Len(thought_list) = Len(LastCall.before)
        /\ \A i \in 1 .. Len(thought_list) :
              thought_list[i].saliency = LastCall.before[i].saliency

\* like raised the weight of an EDIT thought of saliency 0.663 and left its
\* saliency at 0.663
C11_LikedKeepingSaliencyReached ==
    /\ Called("like")
    /\ Len(thought_list) = 1
    /\ LastCall.before[1].saliency = 663
    /\ thought_list[1].weight > LastCall.before[1].weight
    /\ thought_list[1].saliency = 663

(***************************************************************************)
(* C14: set_max_thought_count(n) always returns, for every store and every *)
(* n: when the count is above n and only persistent thoughts remain (or    *)
(* none at all), it stops without evicting and without an error.  A call   *)
(* that has been made has returned, and if it could evict nothing it left  *)
(* the store as it was.                                                    *)
(***************************************************************************)
C14_SetMaxThoughtCountReturns ==
    last = "set_max_thought_count" =>
        /\ pc = "idle"
        /\ (Len(thoughts) > max_thought_count => AllPersistent(thoughts))

(***************************************************************************)
(* Helpers of the memory store claims                                      *)
(***************************************************************************)
\* the item an overflow is to remove from a tier: the one created earliest,
\* and of several created at that time the first in the list
IsOldest(items, i) ==
    /\ i \in 1 .. Len(items)
    /\ \A j \in 1 .. Len(items) :
          /\ items[i].created <= items[j].created
          /\ (j < i => items[i].created < items[j].created)

WithoutOldest(items) ==
    SeqRemoveAt(items, CHOOSE i \in 1 .. Len(items) : IsOldest(items, i))

RECURSIVE OldestRemovedUntilFits(_, _)
OldestRemovedUntilFits(items, cap) ==
    IF Len(items) <= cap \/ items = <<>> THEN items
    ELSE OldestRemovedUntilFits(WithoutOldest(items), cap)

\* the memory an add of memory_item is to leave
MemoryAfterAdd(m, short_cap, long_cap, memory_item) ==
    IF memory_item.type = "SHORT_TERM"
    THEN LET added == Append(m.short_term, memory_item)
         IN  [m EXCEPT !.short_term =
                 IF Len(added) > short_cap THEN WithoutOldest(added) ELSE added]
    ELSE LET added == Append(m.long_term, memory_item)
         IN  [m EXCEPT !.long_term =
                 IF Len(added) > long_cap THEN WithoutOldest(added) ELSE added]

(***************************************************************************)
(* C12: after any sequence of MemoryStore calls (add_memory_item,          *)
(* update_memory_item, remove_memory_item, clear, clear_short_term,        *)
(* set_max_memory_count), with items of any ids, once the last call has    *)
(* returned len(short_term) <= max_short_term_count and                    *)
(* len(long_term) <= max_long_term_count.                                  *)
(***************************************************************************)
C12_MemoryTiersWithinCapacity ==
    pc = "idle" =>
        /\ Len(memory.short_term) <= max_short_term_count
        /\ Len(memory.long_term) <= max_long_term_count

(***************************************************************************)
(* C13: when a memory tier overflows its capacity, the item removed is the *)
(* item of that same tier with the earliest timestamps.created, and of     *)
(* items created at the same time the first in the tier's list; the other  *)
(* items of the tier, and the other tier, are kept.  An add_memory_item    *)
(* call leaves the memory some added item asks for, and a                  *)
(* set_max_memory_count call that returns leaves each tier with its oldest *)
(* items removed until it fits.                                            *)
(***************************************************************************)
C13_OverflowRemovesOldestOfTier ==
    [][ /\ last' = "add_memory_item" =>
              \E item \in MemoryItems :
                  memory' = MemoryAfterAdd(memory, max_short_term_count,
                                           max_long_term_count, item)
        /\ (last' = "set_max_memory_count" /\ pc' = "idle") =>
              /\ memory'.short_term =
                     OldestRemovedUntilFits(memory.short_term, max_short_term_count')
              /\ memory'.long_term =
                     OldestRemovedUntilFits(memory.long_term, max_long_term_count')
      ]_vars

(***************************************************************************)
(* C16: operate with an operation name that is not registered fails with   *)
(* the unknown-operation error, a ValueError, without invoking any         *)
(* operation function and without modifying the supplied thoughts or the   *)
(* registry; so does ThoughtKitAPI.operate once its input has passed its   *)
(* own checks.                                                             *)
(***************************************************************************)
C16_UnknownOperationFailsWithoutEffect ==
    [][ ( /\ outcome' # outcome
          /\ \/ outcome'.call = "operate"
             \/ /\ outcome'.call = "api.operate"
                /\ outcome'.name # "" /\ thought_list # <<>>
                /\ \A i \in 1 .. Len(thought_list) : ValidThought(thought_list[i])
          /\ outcome'.name \notin DOMAIN operations )
        => ( /\ outcome'.error = "ValueError"
             /\ outcome'.message = "No operation named has been registered"
             /\ history' = history
             /\ thought_list' = thought_list
             /\ operations' = operations )
      ]_vars

\* with the built-in operations loaded, operate("merge") on a list of two
\* thoughts raised the ValueError
C16_UnknownOperationReached ==
    /\ outcome.call = "operate" /\ outcome.name = "merge"
    /\ outcome.error = "ValueError"
    /\ "like" \in DOMAIN operations
    /\ Len(thought_list) = 2
    /\ history = <<>>

(***************************************************************************)
(* C17: operating on an empty list of thoughts through the exposed operate *)
(* entry point (ThoughtKitAPI.operate) is a no-op that returns an empty    *)
(* list, without error, for every registered operation name.               *)
(***************************************************************************)
C17_EmptyListIsNoOpThroughApi ==
    ( /\ outcome.call = "api.operate"
      /\ outcome.name \in DOMAIN operations
      /\ thought_list = <<>> )
    => ( /\ outcome.error = "none"
         /\ outcome.returned = <<>> )

(***************************************************************************)
(* cosine_similarity (thinkaloudLM/backend/app/utils/similarity.py),       *)
(* compared with a threshold                                               *)
(***************************************************************************)
RECURSIVE DotUpTo(_, _, _)
DotUpTo(vec1, vec2, n) ==
    IF n = 0 THEN 0 ELSE DotUpTo(vec1, vec2, n - 1) + vec1[n] * vec2[n]

\* np.dot of two vectors of one length
Dot(vec1, vec2) == DotUpTo(vec1, vec2, Len(vec1))

\* cosine_similarity(embedding1, embedding2) > threshold / 1000, for a
\* threshold in [0, 1000): the similarity is 0.0 for a None, an empty or a
\* zero vector, else dot / (|vec1| * |vec2|) clamped to [-1, 1]; the
\* comparison is made on the squares
SimilarityExceeds(embedding1, embedding2, threshold) ==
    IF embedding1.kind # "vector" \/ embedding2.kind # "vector" THEN FALSE
    ELSE IF Len(embedding1.vec) = 0 \/ Len(embedding2.vec) = 0 THEN FALSE
    ELSE LET dot_product == Dot(embedding1.vec, embedding2.vec)
             square1 == Dot(embedding1.vec, embedding1.vec)
             square2 == Dot(embedding2.vec, embedding2.vec)
         IN  IF square1 = 0 \/ square2 = 0 THEN FALSE
             ELSE /\ dot_product > 0
                  /\ dot_product * dot_product * 1000 * 1000
                         > threshold * threshold * square1 * square2

(***************************************************************************)
(* Helpers of the generation claims                                        *)
(***************************************************************************)
\* the held thoughts the embedding is similar to: cosine similarity above 0.8
SimilarHeld(d, embedding) ==
    {i \in 1 .. Len(d) :
        SimilarityExceeds(embedding, d[i].thought.embedding, 800)}

FirstOf(S) == CHOOSE i \in S : \A j \in S : i <= j

\* the reply is not a well-formed {thought, saliency} object: not JSON, JSON
\* that is not an object, or an object whose saliency is null or not a number
Malformed(reply) ==
    \/ reply.kind # "object"
    \/ reply.saliency_is \in {"null", "string"}

\* nothing but the reply can make the call fail: the event's text is not
\* blank, the config has a valid weight and the embedding service answers
RestIsFine(g) ==
    /\ g.event_text \notin BlankTexts
    /\ g.config.has_weight /\ g.config.weight >= 0 /\ g.config.weight <= 1000
    /\ g.error # "LLMAPIError"

(***************************************************************************)
(* C15: at the generation boundary, when the embedding of a newly          *)
(* generated thought has cosine similarity greater than 0.8 with the       *)
(* embedding of a thought already held, no new record is admitted to the   *)
(* ThoughtStore; the saliency of the first such held thought is raised by  *)
(* 0.2, clamped to 2.0 - weight, and the store holds one record for the    *)
(* pair.                                                                   *)
(***************************************************************************)
C15_SimilarThoughtIsMergedNotAdmitted ==
    [][ ( /\ generated' # generated
          /\ generated'.call = "generate_thought"
          /\ generated'.error = "none"
          /\ SimilarHeld(thoughts, generated'.thought.embedding) # {} )
        => LET i == FirstOf(SimilarHeld(thoughts, generated'.thought.embedding))
               held == thoughts[i].thought
           IN  /\ Len(thoughts') = Len(thoughts)
               /\ generated'.thought.id \notin Keys(thoughts')
               /\ thoughts'[i].thought.saliency =
                      Min(held.saliency + 200, 2000 - held.weight)
      ]_vars

(***************************************************************************)
(* C18: every Thought returned by generate has score.weight equal to the   *)
(* config.weight it was handed and score.saliency in [0, 1], whatever      *)
(* saliency number, on the 0-10 scale or outside it, the completion reply  *)
(* carries.                                                                *)
(***************************************************************************)
C18_GeneratedScoreFromConfigAndInRange ==
    (generated.call = "generate" /\ generated.error = "none") =>
        /\ generated.config.has_weight
        /\ generated.thought.weight = generated.config.weight
        /\ generated.thought.saliency >= 0
        /\ generated.thought.saliency <= 1000

\* a reply with saliency "7.5" and a config of weight 0.9 gave a Thought of
\* weight 0.9 and saliency 0.75
C18_GeneratedReached ==
    /\ generated.call = "generate" /\ generated.error = "none"
    /\ generated.reply.saliency = 7500
    /\ generated.config.weight = 900
    /\ generated.thought.weight = 900
    /\ generated.thought.saliency = 750

(***************************************************************************)
(* C19: generate never fails because of a malformed structured reply: for  *)
(* every completion reply that is not a well-formed {thought, saliency}    *)
(* object (invalid JSON, a JSON value that is not an object, a null or     *)
(* non-numeric saliency) it returns a Thought whose content text is the    *)
(* raw reply and whose saliency is 0.  Stated for the replies whose text   *)
(* is not blank: what a blank text does is the matter of C20.              *)
(***************************************************************************)
C19_MalformedReplyFallsBackToRawText ==
    ( /\ generated.call = "generate"
      /\ Malformed(generated.reply)
      /\ generated.reply.raw \notin BlankTexts
      /\ RestIsFine(generated) )
    => ( /\ generated.error = "none"
         /\ generated.thought.text = generated.reply.raw
         /\ generated.thought.saliency = 0 )

(***************************************************************************)
(* C20: when the generated thought text is empty or whitespace-only,       *)
(* generate skips the embedding call and returns a Thought whose           *)
(* content.embedding is null, without raising.                             *)
(***************************************************************************)
C20_BlankTextSkipsEmbedding ==
    ( /\ generated.call = "generate"
      /\ generated.content.error = "none"
      /\ generated.content.text \in BlankTexts
      /\ generated.content.saliency >= 0 /\ generated.content.saliency <= 1000
      /\ RestIsFine(generated) )
    => ( /\ generated.error = "none"
         /\ generated.thought.text = generated.content.text
         /\ generated.thought.embedding = NoEmbedding )

(***************************************************************************)
(* C28: every mutation of a thought rewrites its timestamps.updated: after *)
(* like, dislike, react, pin, unpin, anchor or unanchor has changed a      *)
(* thought, its timestamps.updated is the time of that operation (the k-th *)
(* operation is made at time k), not the time of its creation (0) or of    *)
(* an earlier change.                                                      *)
(***************************************************************************)
C28_MutationRewritesUpdated ==
    history # <<>> =>
        \A i \in 1 .. Len(thought_list) :
            thought_list[i] # LastCall.before[i] =>
                thought_list[i].updated = Len(history)

(***************************************************************************)
(* cosine_similarity (thinkaloudLM/backend/app/utils/similarity.py)        *)
(* The similarity is a float in [-1, 1]; it is modelled in thousandths.    *)
(* The embeddings of the model have whole magnitudes, so that np.linalg    *)
(* .norm is exact; drift is the rounding error of the float quotient.      *)
(***************************************************************************)
\* the embeddings handed to cosine_similarity: None, an empty list, zero
\* vectors and vectors of two lengths
SimilarityInputs ==
    { NoEmbedding,
      [kind |-> "vector", vec |-> <<>>],
      [kind |-> "vector", vec |-> <<0, 0>>],
      [kind |-> "vector", vec |-> <<1, 0>>],
      [kind |-> "vector", vec |-> <<-1, 0>>],
      [kind |-> "vector", vec |-> <<4, 3>>],
      [kind |-> "vector", vec |-> <<3, 4>>],
      [kind |-> "vector", vec |-> <<-3, 4>>],
      [kind |-> "vector", vec |-> <<0, 0, 0>>],
      [kind |-> "vector", vec |-> <<1, 2, 2>>] }

\* the rounding errors of the quotient, in thousandths
Drifts == {-1, 0, 1}

\* np.linalg.norm of a vector
Norm(vec) ==
    LET square == Dot(vec, vec)
    IN  CHOOSE r \in 0 .. square : r * r <= square /\ (r + 1) * (r + 1) > square

\* the quotient without the final clamp
CosineSimilarityUnclamped(embedding1, embedding2, drift) ==
    IF embedding1.kind = "None" \/ embedding2.kind = "None"
    THEN [error |-> "none", value |-> 0]
    ELSE IF Len(embedding1.vec) = 0 \/ Len(embedding2.vec) = 0
    THEN [error |-> "none", value |-> 0]
    ELSE IF Len(embedding1.vec) # Len(embedding2.vec)
    THEN [error |-> "ValueError", value |-> 0]
    ELSE LET dot_product == Dot(embedding1.vec, embedding2.vec)
             magnitude1 == Norm(embedding1.vec)
             magnitude2 == Norm(embedding2.vec)
         IN  IF magnitude1 = 0 \/ magnitude2 = 0
             THEN [error |-> "none", value |-> 0]
             ELSE [error |-> "none",
                   value |-> (dot_product * 1000) \div (magnitude1 * magnitude2)
                             + drift]

\* cosine_similarity(embedding1, embedding2): 0.0 for a None or an empty
\* embedding; np.dot raises ValueError for vectors of two lengths; 0.0 for a
\* zero magnitude; else the quotient clamped to [-1, 1]
CosineSimilarityResult(embedding1, embedding2, drift) ==
    LET unclamped == CosineSimilarityUnclamped(embedding1, embedding2, drift)
    IN  [error |-> unclamped.error,
         value |-> Max(Min(unclamped.value, 1000), -1000)]

cosine_similarity(embedding1, embedding2, drift) ==
    /\ similarity' =
           [call |-> "cosine_similarity", embedding1 |-> embedding1,
            embedding2 |-> embedding2,
            error |-> CosineSimilarityResult(embedding1, embedding2, drift).error,
            value |-> CosineSimilarityResult(embedding1, embedding2, drift).value]
    /\ UNCHANGED <<storeVars, memVars, opVars, registryVars, generated,
                   gateway, articulated, api_generated, requests, context>>

SimilarityNext ==
    \E e1 \in SimilarityInputs, e2 \in SimilarityInputs, drift \in Drifts :
        cosine_similarity(e1, e2, drift)

\* cosine_similarity called on pairs of embeddings
SpecSimilarity == Init /\ [][SimilarityNext]_vars

\* an embedding that is None, empty or of zero magnitude
Degenerate(embedding) ==
    \/ embedding.kind = "None"
    \/ \A i \in 1 .. Len(embedding.vec) : embedding.vec[i] = 0

\* C26: cosine_similarity returns 0.0 and raises nothing whenever one of
\* its embeddings is None, is empty or has zero magnitude.
C26_DegenerateEmbeddingGivesZero ==
    (/\ similarity.call = "cosine_similarity"
     /\ Degenerate(similarity.embedding1) \/ Degenerate(similarity.embedding2))
    => similarity.error = "none" /\ similarity.value = 0

\* C27: for every pair of embeddings, vectors of two lengths included,
\* cosine_similarity returns a value in [-1, 1].
C27_SimilarityWithinUnitRange ==
    similarity.call = "cosine_similarity"
    => /\ similarity.error = "none"
       /\ similarity.value >= -1000
       /\ similarity.value <= 1000

(***************************************************************************)
(* The gateway (thought_kit/utils/llm_api.py): get_completion,             *)
(* get_embedding_async and get_embedding_sync share one retry loop.  A     *)
(* call is a process: it issues an upstream request, handles the response, *)
(* and sleeps before the next attempt after a rate-limit response.         *)
(***************************************************************************)
\* max_retries of the three functions when the caller passes none
DefaultMaxRetries == 3

\* the largest max_retries handed to a gateway call
MaxRetries == 3

GatewayFunctions == {"get_completion", "get_embedding_async", "get_embedding_sync"}

\* the texts handed to the embedding functions; get_completion has no such check
GatewayTexts == {"idea", " "}

\* What an upstream request comes back with: a response, or an exception.
\* openai.APIStatusError carries a status_code; openai.APIConnectionError is
\* an APIError without one; any other exception is not an APIError.  A
\* response without choices (or data) makes the line that reads it raise.
Responses ==
    { [kind |-> "response", has_status |-> FALSE, status_code |-> 0],
      [kind |-> "malformed response", has_status |-> FALSE, status_code |-> 0],
      [kind |-> "APIStatusError", has_status |-> TRUE, status_code |-> 429],
      [kind |-> "APIStatusError", has_status |-> TRUE, status_code |-> 500],
      [kind |-> "APIConnectionError", has_status |-> FALSE, status_code |-> 0],
      [kind |-> "Exception", has_status |-> FALSE, status_code |-> 0] }

\* attempt in range(max_retries)
InRangeInclusive(attempt, max_retries) == attempt <= max_retries
InRange(attempt, max_retries) == attempt < max_retries

\* wait_time = 2 ** attempt; the variant counts the attempts from 1
Pow2FromOne(n) == 2 ^ (n + 1)
Pow2(n) == 2 ^ n

Ended(g, pc_, error, message) ==
    [g EXCEPT !.pc = pc_, !.error = error, !.message = message]

\* the head of the loop: the next attempt, or the raise after the loop
LoopHead(g) ==
    IF InRange(g.attempt, g.max_retries)
    THEN [g EXCEPT !.pc = "requesting"]
    ELSE Ended(g, "raised", "LLMAPIError", "Max retries exceeded")

\* the call up to its first request: the text check of the embedding
\* functions, get_client(), then the head of the loop
GatewayCallResult(fn, text, has_key, max_retries) ==
    LET g == [fn |-> fn, max_retries |-> max_retries, attempt |-> 0,
              pc |-> "requesting", responses |-> <<>>, waits |-> <<>>,
              error |-> "none", message |-> ""]
    IN  IF fn # "get_completion" /\ text \in BlankTexts
        THEN Ended(g, "raised", "ValueError", "Empty text provided for embedding")
        ELSE IF ~has_key
        THEN Ended(g, "raised", "LLMAPIError",
                   "OPENAI_API_KEY environment variable not set")
        ELSE LoopHead(g)

\* one pass of the loop body: the request and the handling of what came back
CreateResult(g, response) ==
    LET h == [g EXCEPT !.responses = Append(g.responses, response)]
    IN  IF response.kind = "response"
        THEN Ended(h, "returned", "none", "")
        ELSE IF response.kind \in {"APIStatusError", "APIConnectionError"}
        THEN IF ~response.has_status
             THEN Ended(h, "raised", "AttributeError", "status_code")
             ELSE IF response.status_code = 429
                     /\ g.attempt < g.max_retries - 1
             THEN [h EXCEPT !.pc = "sleeping",
                            !.waits = Append(g.waits, Pow2(g.attempt))]
             ELSE Ended(h, "raised", "LLMAPIError", "OpenAI API error")
        ELSE Ended(h, "raised", "LLMAPIError", "Unexpected error")

\* continue: the next value of attempt
SleepResult(g) == LoopHead([g EXCEPT !.attempt = g.attempt + 1])

gatewayFrame ==
    <<storeVars, memVars, opVars, registryVars, generated, similarity,
      articulated, api_generated, requests, context>>

\* a gateway function is called; the call before it has ended
gateway_call(fn, text, has_key, max_retries) ==
    /\ gateway.pc \in {"idle", "returned", "raised"}
    /\ gateway' = GatewayCallResult(fn, text, has_key, max_retries)
    /\ UNCHANGED gatewayFrame

\* client.chat.completions.create / client.embeddings.create and its handlers
create(response) ==
    /\ gateway.pc = "requesting"
    /\ gateway' = CreateResult(gateway, response)
    /\ UNCHANGED gatewayFrame

\* asyncio.sleep(wait_time) / time.sleep(wait_time) is over
sleep ==
    /\ gateway.pc = "sleeping"
    /\ gateway' = SleepResult(gateway)
    /\ UNCHANGED gatewayFrame

GatewayStep == (\E response \in Responses : create(response)) \/ sleep

GatewayNext ==
    \/ \E fn \in GatewayFunctions, text \in GatewayTexts, has_key \in BOOLEAN,
          max_retries \in 0 .. MaxRetries :
          gateway_call(fn, text, has_key, max_retries)
    \/ \E response \in Responses : create(response)
    \/ sleep

\* the upstream answers every request and every sleep ends
SpecGateway == Init /\ [][GatewayNext]_vars /\ WF_vars(GatewayStep)

IsRateLimit(response) ==
    response.kind = "APIStatusError" /\ response.status_code = 429

GatewayBusy == gateway.pc \in {"requesting", "sleeping"}
GatewayEnded == gateway.pc \in {"returned", "raised"}

\* a call issues at most max_retries requests; a successful response is the
\* last one and the call returns on it; max_retries rate-limit responses in
\* a row end the call with LLMAPIError
GatewayBounded ==
    /\ Len(gateway.responses) <= gateway.max_retries
    /\ \A i \in 1 .. Len(gateway.responses) :
          gateway.responses[i].kind = "response"
          => i = Len(gateway.responses) /\ gateway.pc = "returned"
    /\ (/\ gateway.responses # <<>>
        /\ Len(gateway.responses) = gateway.max_retries
        /\ \A i \in 1 .. Len(gateway.responses) :
              IsRateLimit(gateway.responses[i]))
       => gateway.pc = "raised" /\ gateway.error = "LLMAPIError"

\* C22: a gateway call issues at most max_retries upstream requests and
\* always terminates: it returns on the first successful response, and it
\* raises LLMAPIError once rate-limit responses have used up the retries.
C22_GatewayCallBoundedAndTerminates ==
    /\ []GatewayBounded
    /\ GatewayBusy ~> GatewayEnded

\* rate-limit responses used up the three attempts of a call
C22_RetriesExhaustedReached ==
    /\ gateway.pc = "raised"
    /\ gateway.error = "LLMAPIError"
    /\ gateway.max_retries = DefaultMaxRetries
    /\ Len(gateway.responses) = DefaultMaxRetries
    /\ \A i \in 1 .. Len(gateway.responses) : IsRateLimit(gateway.responses[i])
    /\ gateway.waits = <<1, 2>>

\* C23: a failure that is not a rate-limit response is never retried: the
\* call raises LLMAPIError right after that attempt, without a backoff wait
\* and without a further request, at whichever attempt it occurs.
C23_OtherFailuresRaiseAtOnce ==
    \A i \in 1 .. Len(gateway.responses) :
        (gateway.responses[i].kind # "response"
         /\ ~IsRateLimit(gateway.responses[i]))
        => /\ i = Len(gateway.responses)
           /\ gateway.pc = "raised"
           /\ gateway.error = "LLMAPIError"
           /\ Len(gateway.waits) = i - 1

(***************************************************************************)
(* ThoughtArticulator.articulate (thought_kit/modules/articulator.py)      *)
(* The memory section of the prompt does not bear on the ranking nor on    *)
(* the number of completions and is left out.                              *)
(***************************************************************************)
\* the thoughts articulate is handed: t1 and t2 have equal sums
ArticulateThoughts == {t \in SeedThoughts : t.id \in {"t1", "t2", "t3", "t4"}}

\* the lists handed to articulate
ArticulateLists == UNION {[1 .. n -> ArticulateThoughts] : n \in 0 .. MaxLen + 1}

\* what get_completion comes back with: a text, or LLMAPIError
Completions ==
    { [error |-> "none", text |-> " Hello. "],
      [error |-> "none", text |-> " "],
      [error |-> "LLMAPIError", text |-> ""] }

\* str.strip()
Strip(text) ==
    IF text = " Hello. " THEN "Hello."
    ELSE IF text \in BlankTexts THEN ""
    ELSE text

\* the sort key: t.score.saliency + t.score.weight
Importance(t) == t.saliency + t.weight

\* an entry of the sorted list: the thought and its place in the input
RECURSIVE InsertByImportance(_, _)
InsertByImportance(sorted, e) ==
    IF sorted = <<>> THEN <<e>>
    ELSE IF Importance(Head(sorted).thought) >= Importance(e.thought)
    THEN <<Head(sorted)>> \o InsertByImportance(Tail(sorted), e)
    ELSE <<e>> \o sorted

\* sorted(thoughts, key=..., reverse=True) of the first n thoughts: a new
\* list, descending, equal keys in their input order
RECURSIVE SortedByImportance(_, _)
SortedByImportance(given, n) ==
    IF n = 0 THEN <<>>
    ELSE InsertByImportance(SortedByImportance(given, n - 1),
                            [index |-> n, thought |-> given[n]])

\* the lines "{i}. [Importance: {importance_score:.2f}] ..." of the prompt
ThoughtLines(sorted_thoughts) ==
    [i \in 1 .. Len(sorted_thoughts) |->
        [number |-> i, index |-> sorted_thoughts[i].index,
         thought |-> sorted_thoughts[i].thought,
         importance |-> Round2(Importance(sorted_thoughts[i].thought))]]

\* variants of ArticulateResult: one that has no early return for an empty
\* list, one that sorts in ascending order
ArticulateResultAlwaysCompleting(given, completion) ==
    [call |-> "articulate", given |-> given, thoughts |-> given,
     lines |-> ThoughtLines(SortedByImportance(given, Len(given))),
     completions |-> 1, error |-> completion.error,
     text |-> Strip(completion.text)]

ArticulateResultAscending(given, completion) ==
    LET sorted_thoughts == SortedByImportance(given, Len(given))
        n == Len(given)
    IN  [call |-> "articulate", given |-> given, thoughts |-> given,
         lines |-> ThoughtLines([i \in 1 .. n |-> sorted_thoughts[n + 1 - i]]),
         completions |-> IF n = 0 THEN 0 ELSE 1,
         error |-> IF n = 0 THEN "none" ELSE completion.error,
         text |-> IF n = 0 THEN "" ELSE Strip(completion.text)]

\* articulate(thoughts, ...): "" for an empty list; else the sorted copy, the
\* numbered lines, one get_completion and its stripped text.  The list
\* handed in is read, never written.
ArticulateResult(given, completion) ==
    IF given = <<>>
    THEN [call |-> "articulate", given |-> given, thoughts |-> given,
          lines |-> <<>>, completions |-> 0, error |-> "none", text |-> ""]
    ELSE [call |-> "articulate", given |-> given, thoughts |-> given,
          lines |-> ThoughtLines(SortedByImportance(given, Len(given))),
          completions |-> 1, error |-> completion.error,
          text |-> Strip(completion.text)]

articulate(given, completion) ==
    /\ articulated' = ArticulateResult(given, completion)
    /\ UNCHANGED <<storeVars, memVars, opVars, registryVars, generated,
                   similarity, gateway, api_generated, requests, context>>

ArticulateNext ==
    \E given \in ArticulateLists, completion \in Completions :
        articulate(given, completion)

\* articulate called on lists of thoughts
SpecArticulate == Init /\ [][ArticulateNext]_vars

\* C24: articulate on an empty list returns "" and issues no completion
\* call; on a non-empty list it issues exactly one get_completion call.
C24_OneCompletionUnlessEmpty ==
    articulated.call = "articulate"
    => IF articulated.given = <<>>
       THEN /\ articulated.completions = 0
            /\ articulated.error = "none"
            /\ articulated.text = ""
       ELSE articulated.completions = 1

\* articulate was called on an empty list
C24_EmptyListArticulated ==
    articulated.call = "articulate" /\ articulated.given = <<>>

\* C25: the numbered lines hold the thoughts in descending order of
\* saliency + weight, thoughts of equal sums in their input order, numbered
\* 1..n; the list handed in keeps its order.
C25_RankedDescendingStable ==
    articulated.call = "articulate"
    => LET lines == articulated.lines
           n == Len(articulated.given)
       IN  /\ articulated.thoughts = articulated.given
           /\ Len(lines) = n
           /\ {lines[k].index : k \in 1 .. n} = 1 .. n
           /\ \A k \in 1 .. n :
                 /\ lines[k].number = k
                 /\ lines[k].thought = articulated.given[lines[k].index]
           /\ \A j \in 1 .. n : \A k \in 1 .. n :
                 j < k =>
                    \/ Importance(lines[j].thought) > Importance(lines[k].thought)
                    \/ /\ Importance(lines[j].thought) = Importance(lines[k].thought)
                       /\ lines[j].index < lines[k].index

\* three thoughts were ranked: two of equal sums after a greater one that
\* came last in the input
C25_TieRankedReached ==
    /\ articulated.call = "articulate"
    /\ Len(articulated.lines) = 3
    /\ articulated.lines[1].index = 3
    /\ articulated.lines[2].index = 1
    /\ articulated.lines[3].index = 2
    /\ articulated.lines[2].thought.id # articulated.lines[3].thought.id
    /\ Importance(articulated.lines[2].thought)
           = Importance(articulated.lines[3].thought)

(***************************************************************************)
(* ThoughtKitAPI.generate (thought_kit/api.py): the checks of the input,   *)
(* then ThoughtGenerator.generate and the gateway calls it makes           *)
(***************************************************************************)
\* input_data: a dict, a JSON string of a dict, or a string that is not JSON
InputKinds == {"dict", "json", "invalid json"}

\* a key of the input: absent, present with an empty value (None, {}, ""),
\* or present with the data of the component
Presences == {"absent", "empty", "given"}

\* the older keys "thought_config" and "thought_seed": absent or given
OlderPresences == {"absent", "given"}

\* data.get(key, data.get(older_key)): the value under key when the key is
\* there, else the value under the older key, else None
GetWithFallback(value, older_value) ==
    IF value # "absent" THEN value ELSE older_value

\* the gateway calls ThoughtGenerator.generate makes, in order, up to the
\* first one that raises: the event's embedding, the completion, the
\* embedding of the content
GenerateIssued(event_text, event_service, reply, service) ==
    IF get_embedding(event_text, event_service).kind # "vector"
    THEN <<"get_embedding">>
    ELSE IF GenerateContent(reply).error # "none"
    THEN <<"get_embedding", "get_completion">>
    ELSE <<"get_embedding", "get_completion", "get_embedding">>

ApiRaised(input, event, config, thought_config, seed, thought_seed, message) ==
    [call |-> "generate", input |-> input, event |-> event, config |-> config,
     thought_config |-> thought_config, seed |-> seed,
     thought_seed |-> thought_seed, issued |-> <<>>, error |-> "ValueError",
     message |-> message]

\* a variant of ApiGenerateResult that hands its input to the generator
\* without checking it
ApiGenerateResultUnchecked(input, event, config, thought_config, seed, thought_seed, event_service, reply, service) ==
    [call |-> "generate", input |-> input, event |-> event, config |-> config,
     thought_config |-> thought_config, seed |-> seed,
     thought_seed |-> thought_seed,
     issued |-> GenerateIssued("Tell me about exercise.", event_service,
                               reply, service),
     error |-> GenerateResult("generate", "g1", "Tell me about exercise.",
                              event_service, reply, RouteConfig, service).error,
     message |-> ""]

\* ThoughtKitAPI.generate(input_data): the JSON string is parsed, the three
\* components are looked up and checked, and only then the generator runs
ApiGenerateResult(input, event, config, thought_config, seed, thought_seed, event_service, reply, service) ==
    IF input = "invalid json"
    THEN ApiRaised(input, event, config, thought_config, seed, thought_seed,
                   "Invalid JSON string provided")
    ELSE IF event # "given"
    THEN ApiRaised(input, event, config, thought_config, seed, thought_seed,
                   "Event input is required")
    ELSE IF GetWithFallback(config, thought_config) # "given"
    THEN ApiRaised(input, event, config, thought_config, seed, thought_seed,
                   "Thought configuration is required")
    ELSE IF GetWithFallback(seed, thought_seed) # "given"
    THEN ApiRaised(input, event, config, thought_config, seed, thought_seed,
                   "Thought seed is required")
    ELSE [call |-> "generate", input |-> input, event |-> event,
          config |-> config, thought_config |-> thought_config, seed |-> seed,
          thought_seed |-> thought_seed,
          issued |-> GenerateIssued("Tell me about exercise.", event_service,
                                    reply, service),
          error |-> GenerateResult("generate", "g1", "Tell me about exercise.",
                                   event_service, reply, RouteConfig,
                                   service).error,
          message |-> ""]

api_generate(input, event, config, thought_config, seed, thought_seed, event_service, reply, service) ==
    /\ api_generated' = ApiGenerateResult(input, event, config, thought_config,
                                          seed, thought_seed, event_service,
                                          reply, service)
    /\ UNCHANGED <<storeVars, memVars, opVars, registryVars, generated,
                   similarity, gateway, articulated, requests, context>>

ApiGenerateNext ==
    \E input \in InputKinds, event \in Presences, config \in Presences,
       thought_config \in OlderPresences, seed \in Presences,
       thought_seed \in OlderPresences, es \in EventEmbeddings,
       r \in RouteReplies, sv \in EventEmbeddings :
       api_generate(input, event, config, thought_config, seed, thought_seed,
                    es, r, sv)

\* ThoughtKitAPI.generate called on inputs with and without their components
SpecApiGenerate == Init /\ [][ApiGenerateNext]_vars

IsFullTextOfGenerated(text) ==
    text \in FullTexts /\ LastSentence(text) = generated'.event_text

\* a step of a generation that succeeded: into an empty short-term memory
\* it adds one item with the full text, otherwise it rewrites the text of
\* item 0 and nothing else
RollingItemStep ==
    (generated'.call = "generate_thought" /\ generated'.error = "none")
    => IF memory.short_term = <<>>
       THEN /\ Len(memory'.short_term) = 1
            /\ IsFullTextOfGenerated(memory'.short_term[1].text)
       ELSE /\ Len(memory'.short_term) = Len(memory.short_term)
            /\ IsFullTextOfGenerated(memory'.short_term[1].text)
            /\ memory'.short_term[1].id = memory.short_term[1].id
            /\ memory'.short_term[1].created = memory.short_term[1].created

MaxRequests == 6

\* the ids uuid4 gives the thoughts, one per request
FreshIds == <<"g1", "g2", "g3", "g4", "g5", "g6", "g7", "g8">>

\* the texts of the concurrent requests
RequestTexts == {"Tell me about exercise.", " "}

\* the store as another request can find it after add_thought was called:
\* add_thought has no suspension point, so it is the store after the
\* insertion, the capacity check and the eviction.  The variant is the
\* store a request would find if add_thought suspended after the insertion.
StoreAfterInsertionSuspended(d, cap, t) == DictSet(d, t.id, t)
StoreAfterInsertion(d, cap, t) == AddThoughtResult(d, cap, t)

\* the request is over: its slot is free again
Served(r) == [requests EXCEPT !.slot[r] = NoRequest]

requestFrame ==
    <<max_thought_count, pc, last, max_short_term_count, max_long_term_count,
      opVars, registryVars, generated, utilVars>>

\* POST /thoughts/generate up to its first suspension, the embedding of the
\* event inside thoughtkit.generate
request_generate(r, full_text) ==
    /\ requests.started < MaxRequests
    /\ requests.slot[r].pc = "idle"
    /\ requests' = [requests EXCEPT
                       !.started = requests.started + 1,
                       !.slot[r] = [pc |-> "event embedding",
                                    n |-> requests.started + 1,
                                    full_text |-> full_text,
                                    reply |-> NoReply]]
    /\ UNCHANGED <<thoughts, memory, requestFrame>>

\* the event's embedding is there, or it failed (HTTP 500); the request goes
\* on to the completion
event_embedded(r, event_service) ==
    /\ requests.slot[r].pc = "event embedding"
    /\ requests' =
           IF get_embedding(LastSentence(requests.slot[r].full_text),
                            event_service).kind # "vector"
           THEN Served(r)
           ELSE [requests EXCEPT !.slot[r].pc = "completion"]
    /\ UNCHANGED <<thoughts, memory, requestFrame>>

\* the completion is there; the request goes on to the embedding of the
\* content unless parsing the reply raised
completed(r, reply) ==
    /\ requests.slot[r].pc = "completion"
    /\ requests' =
           IF GenerateContent(reply).error # "none"
           THEN Served(r)
           ELSE [requests EXCEPT !.slot[r].pc = "embedding",
                                 !.slot[r].reply = reply]
    /\ UNCHANGED <<thoughts, memory, requestFrame>>

\* the embedding of the content is there: thoughtkit.generate returns the
\* Thought and the route runs on to its end, through add_thought and the
\* short-term memory, without suspending
embedded(r, service, memory_id, now) ==
    /\ requests.slot[r].pc = "embedding"
    /\ LET request == requests.slot[r]
           done == GenerateResult("generate_thought", FreshIds[request.n],
                                  LastSentence(request.full_text),
                                  [kind |-> "vector", vec |-> <<1, 0>>],
                                  request.reply, RouteConfig, service)
       IN  IF done.error # "none"
           THEN UNCHANGED <<thoughts, memory>>
           ELSE /\ thoughts' = StoreAfterInsertion(thoughts, max_thought_count,
                                                   done.thought)
                /\ memory' = RouteMemory(memory, max_short_term_count,
                                         max_long_term_count, memory_id, now,
                                         request.full_text)
    /\ requests' = Served(r)
    /\ UNCHANGED requestFrame

RequestsNext ==
    \/ \E r \in RequestSlots, full_text \in RequestTexts :
          request_generate(r, full_text)
    \/ \E r \in RequestSlots, es \in EventEmbeddings : event_embedded(r, es)
    \/ \E r \in RequestSlots, reply \in RouteReplies : completed(r, reply)
    \/ \E r \in RequestSlots, sv \in EventEmbeddings :
          embedded(r, sv, "m1", 1)

\* requests served concurrently by one server with one store
SpecRequests == Init /\ [][RequestsNext]_vars

\* C30: with generate requests in flight on one store, interleaved only
\* where they await the gateway, a store that holds only non-persistent
\* thoughts never holds more than max_thought_count thoughts at a point
\* where another request can run.
C30_CapacityHoldsBetweenRequests ==
    (\A i \in 1 .. Len(thoughts) : ~thoughts[i].thought.persistent)
    => Len(thoughts) <= max_thought_count

\* the store is full, a thought has been evicted from it and another
\* request is suspended at the gateway
C30_EvictedWithRequestInFlight ==
    /\ Len(thoughts) = max_thought_count
    /\ "g1" \notin Keys(thoughts)
    /\ "g6" \in Keys(thoughts)
    /\ \E r \in RequestSlots : requests.slot[r].pc = "embedding"

(***************************************************************************)
(* The backoff of the gateway                                              *)
(***************************************************************************)
\* the rate-limit responses of the call that did not come on its last
\* permitted attempt
RetriedAttempts ==
    {k \in 1 .. Len(gateway.responses) :
        IsRateLimit(gateway.responses[k]) /\ k < gateway.max_retries}

\* C32: after the k-th consecutive rate-limit response that is not the
\* last permitted attempt the gateway waits 2^(k-1) seconds, and it does
\* not wait after the failure of the last attempt.
C32_BackoffDoublesFromOneSecond ==
    /\ Len(gateway.waits) = Cardinality(RetriedAttempts)
    /\ RetriedAttempts = 1 .. Len(gateway.waits)
    /\ \A k \in 1 .. Len(gateway.waits) : gateway.waits[k] = 2 ^ (k - 1)

\* a call that was answered on its third attempt, after waits of 1 s and 2 s
C32_AnsweredAfterTwoWaits ==
    /\ gateway.pc = "returned"
    /\ Len(gateway.responses) = 3
    /\ gateway.waits = <<1, 2>>

(***************************************************************************)
(* What the operations leave alone                                         *)
(***************************************************************************)
\* C33: like, dislike and react leave a VIEW thought as it was; on the
\* other thoughts like and dislike change score.weight only and react
\* changes user_comments and score.weight only; pin, unpin, anchor and
\* unanchor change config.persistent only.  The list that comes back has
\* the same thoughts in the same order.
C33_OperationsChangeOnlyTheirFields ==
    history # <<>> =>
        /\ Len(thought_list) = Len(LastCall.before)
        /\ \A i \in 1 .. Len(thought_list) :
              LET old == LastCall.before[i]
                  new == thought_list[i]
              IN  /\ new.id = old.id
                  /\ (LastCall.name \in {"like", "dislike", "react"}
                      /\ ~Mutable(old)) => new = old
                  /\ LastCall.name \in {"like", "dislike"}
                     => [new EXCEPT !.weight = old.weight] = old
                  /\ LastCall.name = "react"
                     => [new EXCEPT !.weight = old.weight,
                                    !.user_comments = old.user_comments] = old
                  /\ LastCall.name \in {"pin", "unpin", "anchor", "unanchor"}
                     => [new EXCEPT !.persistent = old.persistent] = old

\* react was applied to a VIEW thought, which it left alone, and to a
\* COMMENT thought, which got the comment
C33_ReactedOnViewAndComment ==
    /\ Called("react")
    /\ Len(thought_list) = 2
    /\ ~Mutable(LastCall.before[1])
    /\ thought_list[1] = LastCall.before[1]
    /\ Mutable(LastCall.before[2])
    /\ thought_list[2].user_comments # LastCall.before[2].user_comments

PersistentEntries(d) == {d[i] : i \in {j \in 1 .. Len(d) : d[j].thought.persistent}}

(***************************************************************************)
(* C35: a stored thought whose config.persistent is set stays in the store *)
(* unchanged across every generate request (add_thought of a thought with  *)
(* a fresh id) and every capacity change (set_max_thought_count, returning *)
(* or not); the only steps after which it is no longer stored as it was    *)
(* are remove_thought, clear, and an update_thought or add_thought that    *)
(* stores another thought under its id.                                    *)
(***************************************************************************)
C35_PinnedThoughtStaysStored ==
    [][\A e \in PersistentEntries(thoughts) :
         /\ (\/ \E t \in StoredThoughts :
                   add_thought(t) /\ t.id \notin Keys(thoughts)
             \/ \E n \in Counts : set_max_thought_count(n))
                => e \in PersistentEntries(thoughts')
         /\ e \notin PersistentEntries(thoughts') =>
                \/ last' \in {"remove_thought", "clear"}
                \/ /\ last' \in {"update_thought", "add_thought"}
                   /\ \E t \in StoredThoughts :
                        /\ t.id = e.key
                        /\ t # e.thought
                        /\ \/ update_thought(t.id, t)
                           \/ add_thought(t)
      ]_vars

\* an add_thought over capacity has evicted a thought and left a pinned
\* thought of lower saliency stored next to a non-persistent one
C35_PinnedOutlivedEviction ==
    /\ last = "add_thought"
    /\ Len(thoughts) > max_thought_count
    /\ \E e \in PersistentEntries(thoughts) : e.thought.saliency = 200
    /\ \E i \in 1 .. Len(thoughts) :
         ~thoughts[i].thought.persistent /\ thoughts[i].thought.saliency = 700


(***************************************************************************)
(* C36: in every state of the store each entry's dictionary key equals the *)
(* id of the thought stored under it (so that the eviction, which removes  *)
(* by the victim's id, removes the selected victim itself).                *)
(***************************************************************************)
C36_KeyIsThoughtId ==
    \A i \in 1 .. Len(thoughts) : thoughts[i].key = thoughts[i].thought.id


(***************************************************************************)
(* C37: when add_thought inserts a thought with a fresh id and the store   *)
(* then exceeds its capacity, the new thought is itself the one evicted    *)
(* exactly when it is not persistent and its saliency is strictly lower    *)
(* than that of every other non-persistent stored thought.                 *)
(***************************************************************************)
C37_NewThoughtEvictedIffStrictlyLeast ==
    [][\A t \in StoredThoughts :
         (/\ add_thought(t)
          /\ t.id \notin Keys(thoughts)
          /\ Len(thoughts) + 1 > max_thought_count)
            => (t.id \notin Keys(thoughts')
                  <=> /\ ~t.persistent
                      /\ \A i \in 1 .. Len(thoughts) :
                           ~thoughts[i].thought.persistent
                              => t.saliency < thoughts[i].thought.saliency)
      ]_vars


(***************************************************************************)
(* C38: overflow pruning of one memory tier never removes or changes an    *)
(* item of the other tier, whatever the item ids (an id may be in both     *)
(* tiers): add_memory_item of a short-term item leaves long_term as it     *)
(* was and the reverse, and set_max_memory_count leaves as it was a tier   *)
(* that is within its new capacity.                                        *)
(***************************************************************************)
C38_PruningKeepsOtherTier ==
    [][ /\ \A item \in MemoryItems :
             add_memory_item(item) =>
                 /\ item.type = "SHORT_TERM" =>
                        memory'.long_term = memory.long_term
                 /\ item.type = "LONG_TERM" =>
                        memory'.short_term = memory.short_term
        /\ last' = "set_max_memory_count" =>
             /\ Len(memory.long_term) <= max_long_term_count' =>
                    memory'.long_term = memory.long_term
             /\ Len(memory.short_term) <= max_short_term_count' =>
                    memory'.short_term = memory.short_term
      ]_vars

(***************************************************************************)
(* C39: every item in long_term has type LONG_TERM and every item in       *)
(* short_term has type SHORT_TERM, after any sequence of add_memory_item,  *)
(* update_memory_item, remove_memory_item, clear, clear_short_term and     *)
(* set_max_memory_count calls.                                             *)
(***************************************************************************)
C39_TiersHoldTheirOwnType ==
    /\ \A i \in 1 .. Len(memory.long_term) :
          memory.long_term[i].type = "LONG_TERM"
    /\ \A i \in 1 .. Len(memory.short_term) :
          memory.short_term[i].type = "SHORT_TERM"

(***************************************************************************)
(* C40: set_max_memory_count terminates for every pair of integer          *)
(* arguments and every store state: a call that has been made has          *)
(* returned, and it leaves each tier within its new capacity.              *)
(***************************************************************************)
C40_SetMaxMemoryCountReturns ==
    last = "set_max_memory_count" =>
        /\ pc = "idle"
        /\ Len(memory.short_term) <= max_short_term_count
        /\ Len(memory.long_term) <= max_long_term_count


(***************************************************************************)
(* The context of the generation prompt (ThoughtGenerator._generate_content)*)
(*                                                                         *)
(* The context is a list of sections: the event, the thought               *)
(* configuration, the memory when one is given, and the previous thoughts  *)
(* when the list handed in is not empty.  A previous thought is modelled   *)
(* by content.text and score.saliency (thousandths); a line of the         *)
(* section, '- "{text}"', is modelled by the text it quotes.               *)
(***************************************************************************)
\* the previous thoughts a call is handed: two of them of equal saliency
PreviousThoughts ==
    { [text |-> "p", saliency |-> 700], [text |-> "q", saliency |-> 700],
      [text |-> "q", saliency |-> 200] }

\* the lists handed in: long enough for a thought to be left out
PreviousLists == UNION {[1 .. n -> PreviousThoughts] : n \in 0 .. MaxLen + 2}

\* an entry of the sorted list: the thought and its place in the input
RECURSIVE InsertBySaliencyDescending(_, _)
InsertBySaliencyDescending(sorted, e) ==
    IF sorted = <<>> THEN <<e>>
    ELSE IF Head(sorted).thought.saliency >= e.thought.saliency
    THEN <<Head(sorted)>> \o InsertBySaliencyDescending(Tail(sorted), e)
    ELSE <<e>> \o sorted

\* sorted(previous_thoughts, key=lambda t: t.score.saliency, reverse=True)
\* of the first n thoughts: descending, equal keys in their input order
RECURSIVE SortedBySaliencyDescending(_, _)
SortedBySaliencyDescending(given, n) ==
    IF n = 0 THEN <<>>
    ELSE InsertBySaliencyDescending(SortedBySaliencyDescending(given, n - 1),
                                    [index |-> n, thought |-> given[n]])

\* a variant of TopThoughts that keeps the whole sorted list
TopThoughtsUncut(sorted_thoughts) == sorted_thoughts

\* sorted_thoughts[:min(3, len(sorted_thoughts))]
TopThoughts(sorted_thoughts) ==
    SubSeq(sorted_thoughts, 1, Min(3, Len(sorted_thoughts)))

\* the context sections by their headings, and the lines of the previous
\* thoughts section
GenerateContentContext(has_memory, given) ==
    LET top_thoughts ==
            IF given # <<>>
            THEN TopThoughts(SortedBySaliencyDescending(given, Len(given)))
            ELSE <<>>
    IN  [call |-> "_generate_content", has_memory |-> has_memory,
         previous_thoughts |-> given,
         context_sections |->
             <<"Event", "Thought Configuration">>
             \o (IF has_memory THEN <<"Memory">> ELSE <<>>)
             \o (IF top_thoughts # <<>> THEN <<"Previous Thoughts">> ELSE <<>>),
         thought_lines |->
             [i \in 1 .. Len(top_thoughts) |-> top_thoughts[i].thought.text]]

generate_content(has_memory, given) ==
    /\ context' = GenerateContentContext(has_memory, given)
    /\ UNCHANGED <<storeVars, memVars, opVars, registryVars, generated,
                   similarity, gateway, articulated, api_generated, requests>>

ContextNext ==
    \E has_memory \in BOOLEAN, given \in PreviousLists :
        generate_content(has_memory, given)

\* _generate_content called on lists of previous thoughts
SpecContext == Init /\ [][ContextNext]_vars

\* the number of previous thoughts that go before the i-th one: those of
\* higher saliency, and those of equal saliency earlier in the list
Rank(given, i) ==
    Cardinality({j \in 1 .. Len(given) :
        \/ given[j].saliency > given[i].saliency
        \/ given[j].saliency = given[i].saliency /\ j < i})

(***************************************************************************)
(* C31: the previous-thoughts section of the generator's context lists     *)
(* min(3, n) of the n previous thoughts: those of highest score.saliency,  *)
(* in descending order, thoughts of equal saliency in their original order *)
(* both in the selection and in the listing; with no previous thoughts the *)
(* section is left out.                                                    *)
(***************************************************************************)
C31_ContextListsTopThreeBySaliency ==
    context.call = "_generate_content" =>
        LET given == context.previous_thoughts
            has_section ==
                \E k \in 1 .. Len(context.context_sections) :
                    context.context_sections[k] = "Previous Thoughts"
        IN  /\ has_section <=> given # <<>>
            /\ Len(context.thought_lines) = Min(3, Len(given))
            /\ \A p \in 1 .. Len(context.thought_lines) :
                 \E i \in 1 .. Len(given) :
                    /\ Rank(given, i) = p - 1
                    /\ context.thought_lines[p] = given[i].text

\* four previous thoughts, saliencies 0.2, 0.7, 0.7, 0.2: the two of 0.7 are
\* listed in their order, then the first of 0.2, and the last is left out
C31_TieKeptInOrderAndFourthLeftOut ==
    /\ context.call = "_generate_content"
    /\ context.previous_thoughts =
           << [text |-> "q", saliency |-> 200], [text |-> "p", saliency |-> 700],
              [text |-> "q", saliency |-> 700], [text |-> "q", saliency |-> 200] >>
    /\ context.thought_lines = <<"p", "q", "q">>

====
